---- MODULE Spec2Model ----
(***************************************************************************)
(* Jarvis MVP: the rule engine (rule_engine.py), its cooldown map, the     *)
(* position source (binance_client.py) and the per-user polling handler    *)
(* (main.py check_user_positions).                                         *)
(*                                                                         *)
(* Units.  The clock is in whole seconds since start.  Percentages         *)
(* (risk_pct, liq_distance_pct, the thresholds) are kept in hundredths of  *)
(* a percent, the resolution round(x, 2) leaves them with; prices and      *)
(* sizes are whole numbers.  Python None for an Optional value is the      *)
(* empty sequence, a present value v is <<v>>.                             *)
(***************************************************************************)
EXTENDS Integers, Sequences, FiniteSets, TLC

VARIABLES
    now,               \* datetime.utcnow(), in seconds
    last_alert_times,  \* RuleEngine.last_alert_times of the engine in use
    pc,                \* per caller: where it stands in check_all_rules
    ri,                \* per caller: index of the rule being checked
    position,          \* per caller: the position argument, <<>> when none
    pending,           \* per caller: the alert _create_alert has built
    alerts,            \* per caller: the local list of check_all_rules
    evals,             \* per caller: what each rule check of this call observed
    updates,           \* per caller: keys _update_last_alert_time wrote in this call
    fired,             \* <<rule, symbol>> pairs this engine recorded an alert for
    upc,               \* check_user_positions: position in the handler
    user,              \* check_user_positions: the user being checked
    batch,             \* what the exchange answers this cycle: account and stop orders
    positions,         \* check_user_positions: client.get_positions()
    pidx,              \* check_user_positions: index of the position in the loop
    todo,              \* check_user_positions: alerts of the position not yet handled
    db_alerts,         \* the alerts table: committed Alert rows
    evaluated,         \* the positions handed to check_all_rules in this call
    outcome,           \* how the last check_user_positions call ended
    settings,          \* config.settings as Settings() loaded it
    engine,            \* "none" before RuleEngine(client) ran, "ready" after
    mpc,               \* background_monitor: position in the loop
    active,            \* the users table: ids of the rows with is_active
    due,               \* background_monitor: the users active when the cycle began
    checked,           \* background_monitor: users given to check_user_positions this cycle
    revenge,           \* what the last check_revenge_pattern call saw and returned
    calc_in,           \* the arguments of the function under evaluation
    calc_out,          \* <<>> before it returns, <<its result>> after
    spc,               \* JarvisScheduler: "idle" before start(), "loop", "stopped"
    recaps,            \* the times at which send_daily_recaps was called
    recap_run,         \* send_daily_recaps: per user of the last run, whether it was sent
    clicks,            \* the button_clicks table: committed ButtonClick rows
    click              \* the callback handle_button_click handled last

vars == <<now, last_alert_times, pc, ri, position, pending, alerts,
          evals, updates, fired, upc, user, batch, positions, pidx, todo,
          db_alerts, evaluated, outcome, settings, engine, mpc, active, due,
          checked, revenge, calc_in, calc_out, spc, recaps, recap_run, clicks,
          click>>

engine_vars == <<last_alert_times, pc, ri, position, pending, alerts,
                 evals, updates, fired>>

user_vars == <<upc, user, batch, positions, pidx, todo, db_alerts, evaluated,
               outcome>>

monitor_vars == <<mpc, active, due, checked>>

calc_vars == <<calc_in, calc_out>>

recap_vars == <<spc, recaps>>

click_vars == <<clicks, click>>

aux_vars == <<settings, engine, mpc, active, due, checked, revenge, calc_vars,
              recap_vars, recap_run, click_vars>>

(***************************************************************************)
(* Bounds of the model.                                                    *)
(***************************************************************************)
MaxTime == 600       \* the engine's clock stops advancing here
MaxConcTime == 300   \* the clock of the two-thread runs stops advancing here
MaxPollTime == 15    \* the polling handler's clock stops advancing here
MaxRows == 2         \* rows of the alerts table
MaxMonitorTime == 120 \* the clock of background_monitor stops advancing here
MaxRevengeTime == 900 \* the clock of the revenge runs stops advancing here

Callers == {1, 2}
Users == {1, 2}
Symbols == {"BTCUSDT", "ETHUSDT"}
TickSteps == {180, 300}

(***************************************************************************)
(* config.py                                                               *)
(***************************************************************************)
MAX_RISK_PCT == 2 * 100
MIN_LIQ_DISTANCE_PCT == 5 * 100
POLL_INTERVAL_SECONDS == 15
DefaultCooldown == 300
MONITOR_ERROR_SLEEP == 5

ALERT_COOLDOWNS ==
    [high_risk |-> 300, liq_risk |-> 180, no_sl |-> 600, revenge |-> 900]

RuleOrder == <<"high_risk", "liq_risk", "no_sl">>

(***************************************************************************)
(* Python dict helpers.                                                    *)
(***************************************************************************)
Get(d, k, default) == IF k \in DOMAIN d THEN d[k] ELSE default

Put(d, k, v) == [x \in (DOMAIN d) \cup {k} |-> IF x = k THEN v ELSE d[x]]

\* the fields of Settings the rules read, with their defaults
DefaultSettings ==
    [MAX_RISK_PCT |-> MAX_RISK_PCT,
     MIN_LIQ_DISTANCE_PCT |-> MIN_LIQ_DISTANCE_PCT,
     ALERT_COOLDOWNS |-> ALERT_COOLDOWNS]

\* settings = Settings(): each field is the value the environment gives it,
\* or its default; the class declares no validator
LoadSettings(env) ==
    [f \in DOMAIN DefaultSettings |-> Get(env, f, DefaultSettings[f])]

\* what .env may hold: nothing, another limit, a negative limit, a negative
\* liquidation distance, a liquidation distance of 1000 percent, a negative
\* cooldown
Envs ==
    {<<>>,
     [MAX_RISK_PCT |-> 15 * 100],
     [MAX_RISK_PCT |-> (0 - 1) * 100],
     [MIN_LIQ_DISTANCE_PCT |-> (0 - 5) * 100],
     [MIN_LIQ_DISTANCE_PCT |-> 1000 * 100],
     [ALERT_COOLDOWNS |->
        [high_risk |-> 0 - 1, liq_risk |-> 180, no_sl |-> 600, revenge |-> 900]]}

(***************************************************************************)
(* rule_engine.py: the cooldown tracker.                                   *)
(***************************************************************************)
Key_rule_only(rule_type, symbol) == rule_type \o ":"

Key(rule_type, symbol) == rule_type \o ":" \o symbol

CooldownOf_uniform(rule_type) == DefaultCooldown

CooldownOf(rule_type) == Get(ALERT_COOLDOWNS, rule_type, DefaultCooldown)

ShouldAlert_le(lat, rule_type, symbol, t) ==
    IF Key(rule_type, symbol) \in DOMAIN lat
       /\ t - lat[Key(rule_type, symbol)] <= CooldownOf(rule_type)
    THEN FALSE
    ELSE TRUE

ShouldAlert_always(lat, rule_type, symbol, t) == TRUE

ShouldAlert_once(lat, rule_type, symbol, t) ==
    IF Key(rule_type, symbol) \in DOMAIN lat THEN FALSE ELSE TRUE

ShouldAlert(lat, rule_type, symbol, t) ==
    IF Key(rule_type, symbol) \in DOMAIN lat
       /\ t - lat[Key(rule_type, symbol)] < CooldownOf(rule_type)
    THEN FALSE
    ELSE TRUE

UpdateLastAlertTime_forgets(lat, rule_type, symbol, t) == lat

UpdateLastAlertTime_only(lat, rule_type, symbol, t) ==
    [k \in {Key(rule_type, symbol)} |-> t]

UpdateLastAlertTime(lat, rule_type, symbol, t) ==
    Put(lat, Key(rule_type, symbol), t)

GenerateAlertId(rule_type, symbol, t) ==
    "alert_" \o ToString(t) \o "_" \o rule_type \o "_" \o symbol

(***************************************************************************)
(* rule_engine.py: the three per-position conditions.                      *)
(***************************************************************************)
HighRiskCond_ge(pos) == Get(pos, "risk_pct", 0) >= MAX_RISK_PCT

HighRiskCond(pos) == Get(pos, "risk_pct", 0) > MAX_RISK_PCT

LiqRiskCond(pos) == Get(pos, "liq_distance_pct", 999 * 100) < MIN_LIQ_DISTANCE_PCT

NoStopLossCond_always(pos) == TRUE

NoStopLossCond(pos) == ~Get(pos, "has_stop_loss", FALSE)

Cond(rule_type, pos) ==
    CASE rule_type = "high_risk" -> HighRiskCond(pos)
      [] rule_type = "liq_risk" -> LiqRiskCond(pos)
      [] rule_type = "no_sl" -> NoStopLossCond(pos)

SeverityOf(rule_type) == IF rule_type = "liq_risk" THEN "critical" ELSE "warning"

CreateAlertDict(rule_type, pos, t) ==
    [alert_id |-> GenerateAlertId(rule_type, Get(pos, "symbol", "SYSTEM"), t),
     rule_type |-> rule_type,
     severity |-> SeverityOf(rule_type),
     symbol |-> Get(pos, "symbol", ""),
     side |-> Get(pos, "side_normalized", ""),
     size |-> Get(pos, "size", 0),
     risk_pct |-> Get(pos, "risk_pct", 0),
     liq_distance_pct |-> Get(pos, "liq_distance_pct", 0),
     has_stop_loss |-> Get(pos, "has_stop_loss", FALSE),
     triggered_at |-> t]

(***************************************************************************)
(* binance_client.py: parsing and enriching the exchange's positions.      *)
(* float() and int() of the exchange's strings: the strings below parse,   *)
(* any other raises ValueError.                                            *)
(***************************************************************************)
FloatTable ==
    [s \in {"0", "1", "-1", "10", "95", "97", "100", "1000"} |->
        CASE s = "0" -> 0
          [] s = "1" -> 1
          [] s = "-1" -> 0 - 1
          [] s = "10" -> 10
          [] s = "95" -> 95
          [] s = "97" -> 97
          [] s = "100" -> 100
          [] s = "1000" -> 1000]

CanFloat(s) == s \in DOMAIN FloatTable

ParseFloat(s) == FloatTable[s]

Abs(x) == IF x < 0 THEN 0 - x ELSE x

\* round(n / d) for n >= 0, d > 0, ties to even
RoundDiv(n, d) ==
    LET q == n \div d
        r == n % d
    IN  IF 2 * r < d THEN q
        ELSE IF 2 * r > d THEN q + 1
        ELSE IF q % 2 = 0 THEN q ELSE q + 1

RawFields ==
    {"symbol", "positionAmt", "entryPrice", "markPrice", "leverage",
     "unrealizedProfit", "liquidationPrice"}

NumericFields == RawFields \ {"symbol"}

\* line 49 of get_positions: float(pos['positionAmt']) outside _enrich_position
AmtReadable(raw) == "positionAmt" \in DOMAIN raw /\ CanFloat(raw["positionAmt"])

\* _enrich_position runs to its return statement (no KeyError, ValueError,
\* ZeroDivisionError)
EnrichOK(raw) ==
    /\ RawFields \subseteq DOMAIN raw
    /\ \A f \in NumericFields : CanFloat(raw[f])
    /\ ~(ParseFloat(raw["liquidationPrice"]) > 0 /\ ParseFloat(raw["markPrice"]) = 0)

CheckStopLoss(stops, symbol) == symbol \in stops

Enriched(raw, balance, stops) ==
    LET position_amt == ParseFloat(raw["positionAmt"])
        mark_price == ParseFloat(raw["markPrice"])
        liquidation_price == ParseFloat(raw["liquidationPrice"])
        side == IF position_amt > 0 THEN "Long" ELSE "Short"
        size == Abs(position_amt)
        position_value == size * mark_price
    IN  [symbol |-> raw["symbol"],
         side |-> side,
         side_normalized |-> side,
         size |-> size,
         entry_price |-> ParseFloat(raw["entryPrice"]),
         mark_price |-> mark_price,
         leverage |-> ParseFloat(raw["leverage"]),
         unrealized_pnl |-> ParseFloat(raw["unrealizedProfit"]),
         liquidation_price |-> liquidation_price,
         risk_pct |-> IF balance > 0
                      THEN RoundDiv(position_value * 100 * 100, balance)
                      ELSE 0,
         liq_distance_pct |-> IF liquidation_price > 0
                              THEN RoundDiv(Abs(mark_price - liquidation_price) * 100 * 100,
                                            mark_price)
                              ELSE 999 * 100,
         has_stop_loss |-> CheckStopLoss(stops, raw["symbol"])]

RECURSIVE OpenPositions(_, _, _)
OpenPositions(raws, balance, stops) ==
    IF raws = <<>> THEN <<>>
    ELSE LET raw == Head(raws)
             rest == OpenPositions(Tail(raws), balance, stops)
         IN  IF ParseFloat(raw["positionAmt"]) # 0 /\ EnrichOK(raw)
             THEN <<Enriched(raw, balance, stops)>> \o rest
             ELSE rest

\* account = [positions, totalWalletBalance]; an exception outside
\* _enrich_position makes get_positions return []
GetPositions(account, stops) ==
    IF /\ CanFloat(account.totalWalletBalance)
       /\ \A i \in 1..Len(account.positions) : AmtReadable(account.positions[i])
    THEN OpenPositions(account.positions, ParseFloat(account.totalWalletBalance), stops)
    ELSE <<>>

(***************************************************************************)
(* What the exchange may answer.                                           *)
(***************************************************************************)
Raw(sym, amt, mark, liq) ==
    [symbol |-> sym, positionAmt |-> amt, entryPrice |-> "100", markPrice |-> mark,
     leverage |-> "10", unrealizedProfit |-> "0", liquidationPrice |-> liq]

Without(raw, f) == [k \in (DOMAIN raw) \ {f} |-> raw[k]]

WellFormedRaws ==
    {Raw(s, "1", "100", "0") : s \in Symbols}
    \cup {Raw(s, "1", "100", "97") : s \in Symbols}
    \cup {Raw(s, "-1", "10", "0") : s \in Symbols}

Balance == "1000"

NoAnswer == [positions |-> <<>>, totalWalletBalance |-> Balance, stops |-> {}]

\* the positions handed to an engine that is called directly: every BTCUSDT
\* position, with and without a stop order, and the high-risk ETHUSDT
\* position with a stop order
EnginePositions ==
    {Enriched(raw, ParseFloat(Balance), stops) :
        raw \in {r \in WellFormedRaws : r["symbol"] = "BTCUSDT"},
        stops \in {{"ETHUSDT"}, Symbols}}
    \cup {Enriched(Raw("ETHUSDT", "1", "100", "0"), ParseFloat(Balance), Symbols)}

(***************************************************************************)
(* rule_engine.py: one call of check_all_rules by caller c, statement by   *)
(* statement.  pc[c] is "idle" outside a call, "check" at the head of      *)
(* check_high_risk / check_liquidation_risk / check_no_stop_loss (rule     *)
(* RuleOrder[ri[c]]), "create" at the call of _create_alert, "update" at   *)
(* its call of _update_last_alert_time, "return" at its return statement,  *)
(* "done" at the return of check_all_rules and "raised" when an exception  *)
(* leaves it.                                                              *)
(***************************************************************************)
NoPosition == <<>>

Rule(c) == RuleOrder[ri[c]]

\* what a rule check saw when it looked at the position and the cooldown map
Observation(c) ==
    LET r == Rule(c)
        pos == position[c]
        k == Key(r, pos["symbol"])
        had == Cond(r, pos) /\ k \in DOMAIN last_alert_times
    IN  [rule |-> r,
         symbol |-> pos["symbol"],
         cond |-> Cond(r, pos),
         had |-> had,
         elapsed |-> IF had THEN now - last_alert_times[k] ELSE 0,
         stored |-> IF had THEN last_alert_times[k] ELSE 0,
         at |-> now]

\* the rule check is over without an alert: on to the next rule, or to the
\* return of check_all_rules after the third
NextRule(c) ==
    IF ri[c] = Len(RuleOrder)
    THEN pc' = [pc EXCEPT ![c] = "done"] /\ ri' = ri
    ELSE pc' = [pc EXCEPT ![c] = "check"] /\ ri' = [ri EXCEPT ![c] = ri[c] + 1]

CheckAllRules(c, pos) ==
    /\ pc[c] = "idle"
    /\ pc' = [pc EXCEPT ![c] = "check"]
    /\ ri' = [ri EXCEPT ![c] = 1]
    /\ position' = [position EXCEPT ![c] = pos]
    /\ alerts' = [alerts EXCEPT ![c] = <<>>]
    /\ evals' = [evals EXCEPT ![c] = <<>>]
    /\ updates' = [updates EXCEPT ![c] = <<>>]
    /\ UNCHANGED <<now, last_alert_times, pending, fired>>

\* CheckRule with a suppressed evaluation restarting the cooldown clock
CheckRule_restarts_clock(c) ==
    /\ pc[c] = "check"
    /\ LET r == Rule(c)
           pos == position[c]
       IN  IF ~Cond(r, pos)
           THEN /\ NextRule(c)
                /\ evals' = [evals EXCEPT ![c] = Append(@, Observation(c))]
                /\ UNCHANGED last_alert_times
           ELSE IF ~ShouldAlert(last_alert_times, r, pos["symbol"], now)
           THEN /\ NextRule(c)
                /\ evals' = [evals EXCEPT ![c] = Append(@, Observation(c))]
                /\ last_alert_times' = Put(last_alert_times, Key(r, pos["symbol"]), now)
           ELSE /\ pc' = [pc EXCEPT ![c] = "create"]
                /\ ri' = ri
                /\ evals' = [evals EXCEPT ![c] = Append(@, Observation(c))]
                /\ UNCHANGED last_alert_times
    /\ UNCHANGED <<now, position, pending, alerts, updates, fired>>

CheckRule(c) ==
    /\ pc[c] = "check"
    /\ LET r == Rule(c)
           pos == position[c]
       IN  IF ~Cond(r, pos)
           THEN NextRule(c) /\ evals' = [evals EXCEPT ![c] = Append(@, Observation(c))]
           ELSE IF "symbol" \notin DOMAIN pos
           THEN pc' = [pc EXCEPT ![c] = "raised"] /\ UNCHANGED <<ri, evals>>
           ELSE IF ~ShouldAlert(last_alert_times, r, pos["symbol"], now)
           THEN NextRule(c) /\ evals' = [evals EXCEPT ![c] = Append(@, Observation(c))]
           ELSE /\ pc' = [pc EXCEPT ![c] = "create"]
                /\ ri' = ri
                /\ evals' = [evals EXCEPT ![c] = Append(@, Observation(c))]
    /\ UNCHANGED <<now, last_alert_times, position, pending, alerts, updates, fired>>

CreateAlert_return_first(c) ==
    /\ pc[c] = "create"
    /\ pending' = [pending EXCEPT ![c] = <<CreateAlertDict(Rule(c), position[c], now)>>]
    /\ pc' = [pc EXCEPT ![c] = "return"]
    /\ UNCHANGED <<now, last_alert_times, ri, position, alerts, evals, updates, fired>>

CreateAlert(c) ==
    /\ pc[c] = "create"
    /\ pending' = [pending EXCEPT ![c] = <<CreateAlertDict(Rule(c), position[c], now)>>]
    /\ pc' = [pc EXCEPT ![c] = "update"]
    /\ UNCHANGED <<now, last_alert_times, ri, position, alerts, evals, updates, fired>>

RecordFired(c) ==
    /\ pc[c] = "update"
    /\ last_alert_times' =
           UpdateLastAlertTime(last_alert_times, Rule(c), Get(position[c], "symbol", ""), now)
    /\ updates' = [updates EXCEPT ![c] = Append(@, Key(Rule(c), Get(position[c], "symbol", "")))]
    /\ fired' = fired \cup {<<Rule(c), Get(position[c], "symbol", "")>>}
    /\ pc' = [pc EXCEPT ![c] = "return"]
    /\ UNCHANGED <<now, ri, position, pending, alerts, evals>>

\* ReturnAlert with check_all_rules returning at its first alert
ReturnAlert_stops(c) ==
    /\ pc[c] = "return"
    /\ alerts' = [alerts EXCEPT ![c] = @ \o pending[c]]
    /\ pending' = [pending EXCEPT ![c] = <<>>]
    /\ pc' = [pc EXCEPT ![c] = "done"]
    /\ ri' = ri
    /\ UNCHANGED <<now, last_alert_times, position, evals, updates, fired>>

\* ReturnAlert with the alert not appended to the list
ReturnAlert_drops(c) ==
    /\ pc[c] = "return"
    /\ alerts' = alerts
    /\ pending' = [pending EXCEPT ![c] = <<>>]
    /\ NextRule(c)
    /\ UNCHANGED <<now, last_alert_times, position, evals, updates, fired>>

ReturnAlert(c) ==
    /\ pc[c] = "return"
    /\ alerts' = [alerts EXCEPT ![c] = @ \o pending[c]]
    /\ pending' = [pending EXCEPT ![c] = <<>>]
    /\ NextRule(c)
    /\ UNCHANGED <<now, last_alert_times, position, evals, updates, fired>>

ReturnAlerts(c) ==
    /\ pc[c] = "done"
    /\ pc' = [pc EXCEPT ![c] = "idle"]
    /\ ri' = [ri EXCEPT ![c] = 0]
    /\ position' = [position EXCEPT ![c] = NoPosition]
    /\ alerts' = [alerts EXCEPT ![c] = <<>>]
    /\ evals' = [evals EXCEPT ![c] = <<>>]
    /\ updates' = [updates EXCEPT ![c] = <<>>]
    /\ UNCHANGED <<now, last_alert_times, pending, fired>>

EngineStep(c) ==
    \/ CheckRule(c)
    \/ CreateAlert(c)
    \/ RecordFired(c)
    \/ ReturnAlert(c)

\* datetime.utcnow() moves on
Tick(d) ==
    /\ now + d <= MaxTime
    /\ now' = now + d
    /\ UNCHANGED <<last_alert_times, pc, ri, position, pending, alerts,
                   evals, updates, fired>>

InitEngine ==
    /\ now = 0
    /\ last_alert_times = <<>>
    /\ pc = [c \in Callers |-> "idle"]
    /\ ri = [c \in Callers |-> 0]
    /\ position = [c \in Callers |-> NoPosition]
    /\ pending = [c \in Callers |-> <<>>]
    /\ alerts = [c \in Callers |-> <<>>]
    /\ evals = [c \in Callers |-> <<>>]
    /\ updates = [c \in Callers |-> <<>>]
    /\ fired = {}

InitUser ==
    /\ upc = "idle"
    /\ user = 0
    /\ batch = NoAnswer
    /\ positions = <<>>
    /\ pidx = 0
    /\ todo = <<>>
    /\ db_alerts = {}
    /\ evaluated = <<>>
    /\ outcome = "none"

InitMonitor ==
    /\ mpc = "sleep"
    /\ active = {}
    /\ due = {}
    /\ checked = {}

InitCalc ==
    /\ calc_in = <<>>
    /\ calc_out = <<>>

InitRecap ==
    /\ spc = "idle"
    /\ recaps = {}
    /\ recap_run = <<>>

InitClick ==
    /\ clicks = <<>>
    /\ click = <<>>

InitAux ==
    /\ settings = DefaultSettings
    /\ engine = "ready"
    /\ InitMonitor
    /\ revenge = <<>>
    /\ InitCalc
    /\ InitRecap
    /\ InitClick

Init == InitEngine /\ InitUser /\ InitAux

(***************************************************************************)
(* Spec: one RuleEngine, its callers one after the other (check_all_rules  *)
(* is synchronous code on the event loop: a call runs to its return before *)
(* the next begins).                                                       *)
(***************************************************************************)
AllIdle == \A c \in Callers : pc[c] = "idle"

Call ==
    /\ AllIdle
    /\ \E pos \in EnginePositions : CheckAllRules(1, pos)
    /\ UNCHANGED <<user_vars, aux_vars>>

Step == (\E c \in Callers : EngineStep(c)) /\ UNCHANGED <<user_vars, aux_vars>>

Return == (\E c \in Callers : ReturnAlerts(c)) /\ UNCHANGED <<user_vars, aux_vars>>

Time == (\E d \in TickSteps : Tick(d)) /\ UNCHANGED <<user_vars, aux_vars>>

Next == Call \/ Step \/ Return \/ Time

Spec == Init /\ [][Next]_vars

(***************************************************************************)
(* SpecConc: the same engine entered by two threads at once; the           *)
(* statements of their calls interleave.                                   *)
(***************************************************************************)
\* the positions of the two-thread runs: BTCUSDT at high risk, with and
\* without a stop order
ConcPositions ==
    {Enriched(Raw("BTCUSDT", "1", "100", "0"), ParseFloat(Balance), stops) :
        stops \in {{}, Symbols}}

CallConc ==
    /\ \E c \in Callers, pos \in ConcPositions : CheckAllRules(c, pos)
    /\ UNCHANGED <<user_vars, aux_vars>>

TimeConc == (\E d \in TickSteps : now + d <= MaxConcTime /\ Tick(d)) /\ UNCHANGED <<user_vars, aux_vars>>

NextConc == CallConc \/ Step \/ Return \/ TimeConc

SpecConc == Init /\ [][NextConc]_vars

(***************************************************************************)
(* rule_engine.py: check_revenge_pattern.  A trade is                      *)
(* [is_win, closed_time_dt], the list newest first as get_recent_trades    *)
(* sorts it.                                                               *)
(***************************************************************************)
REVENGE_WINDOW_MINUTES == 15

Count(seq, Test(_)) == Len(SelectSeq(seq, Test))

\* int(x / d) for d > 0: the quotient cut towards zero
TruncDiv(x, d) == IF x >= 0 THEN x \div d ELSE 0 - ((0 - x) \div d)

\* lines 61-64
RecentTrades(trades, t) ==
    SelectSeq(trades, LAMBDA tr : t - tr.closed_time_dt < REVENGE_WINDOW_MINUTES * 60)

\* line 68
Losses(trades, t) == SelectSeq(RecentTrades(trades, t), LAMBDA tr : ~tr.is_win)

\* lines 66-76, pattern 1: the test that leads to its _create_alert call
QuickReentry(trades, poss, t) ==
    /\ Len(RecentTrades(trades, t)) >= 2
    /\ Len(Losses(trades, t)) >= 2
    /\ poss # <<>>
    /\ t - Losses(trades, t)[1].closed_time_dt < 300

\* lines 88-92
RecentCount(trades, t) == Count(trades, LAMBDA tr : tr.closed_time_dt > t - 30 * 60)

\* line 94, pattern 2
HighFrequency(trades, t) == RecentCount(trades, t) >= 5

\* RevengePattern with one recent loss enough for pattern 1
RevengePattern_one_loss(trades, poss, t) ==
    IF /\ Len(Losses(trades, t)) >= 1
       /\ poss # <<>>
       /\ t - Losses(trades, t)[1].closed_time_dt < 300
    THEN <<[position |-> poss[1],
            pattern_type |-> "Quick re-entry after losses",
            details |-> [recent_losses |-> Len(Losses(trades, t))]]>>
    ELSE <<>>

\* RevengePattern with pattern 2 tested before pattern 1
RevengePattern_frequency_first(trades, poss, t) ==
    IF Len(trades) < 2 THEN <<>>
    ELSE IF HighFrequency(trades, t)
    THEN <<[position |-> <<>>,
            pattern_type |-> "High frequency trading",
            details |-> [trade_count |-> RecentCount(trades, t),
                         timeframe |-> "30 minutes"]]>>
    ELSE IF QuickReentry(trades, poss, t)
    THEN <<[position |-> poss[1],
            pattern_type |-> "Quick re-entry after losses",
            details |-> [recent_losses |-> Len(Losses(trades, t))]]>>
    ELSE <<>>

\* <<>> for None, else <<[position, pattern_type, details]>>: the arguments
\* of the _create_alert call that check_revenge_pattern makes
RevengePattern(trades, poss, t) ==
    IF Len(trades) < 2 THEN <<>>
    ELSE IF QuickReentry(trades, poss, t)
    THEN <<[position |-> poss[1],
            pattern_type |-> "Quick re-entry after losses",
            details |->
                [recent_losses |-> Len(Losses(trades, t)),
                 time_since_last_loss |->
                     TruncDiv(t - Losses(trades, t)[1].closed_time_dt, 60)]]>>
    ELSE IF HighFrequency(trades, t)
    THEN <<[position |-> <<>>,
            pattern_type |-> "High frequency trading",
            details |-> [trade_count |-> RecentCount(trades, t),
                         timeframe |-> "30 minutes"]]>>
    ELSE <<>>

Trade(win, closed) == [is_win |-> win, closed_time_dt |-> closed]

\* what get_recent_trades may return: nothing, two fresh losses, five wins
\* in the last half hour
TradeLists ==
    {<<>>,
     <<Trade(FALSE, 0 - 60), Trade(FALSE, 0 - 120)>>,
     <<Trade(TRUE, 0 - 100), Trade(TRUE, 0 - 200), Trade(TRUE, 0 - 300),
       Trade(TRUE, 0 - 400), Trade(TRUE, 0 - 500)>>}

(***************************************************************************)
(* binance_client.py: get_recent_trades.  The exchange answers a list of   *)
(* REALIZED_PNL records [symbol, income, time, tranId], time in            *)
(* milliseconds since the epoch (a multiple of 1000 here: the clock is in  *)
(* whole seconds), or the request fails.                                   *)
(***************************************************************************)
\* datetime.fromtimestamp(seconds): the naive local time of the host, which
\* is UTC plus the host's offset; datetime.utcnow() is naive UTC
FromTimestamp(seconds, utc_offset) == seconds + utc_offset

\* the offsets of a host: UTC, one hour east, five hours west
UtcOffsets == {0, 3600, 0 - 18000}

RECURSIVE InsertByTime(_, _)
InsertByTime(tr, sorted) ==
    IF sorted = <<>> THEN <<tr>>
    ELSE IF Head(sorted).closed_time_dt >= tr.closed_time_dt
    THEN <<Head(sorted)>> \o InsertByTime(tr, Tail(sorted))
    ELSE <<tr>> \o sorted

\* trades.sort(key=closed_time_dt, reverse=True): newest first, records of
\* equal time in their order of arrival
RECURSIVE SortNewestFirst(_)
SortNewestFirst(trades) ==
    IF trades = <<>> THEN <<>>
    ELSE InsertByTime(trades[Len(trades)],
                      SortNewestFirst(SubSeq(trades, 1, Len(trades) - 1)))

RECURSIVE NormalizedTrades(_, _)
NormalizedTrades(records, utc_offset) ==
    IF records = <<>> THEN <<>>
    ELSE LET income == Head(records)
             pnl == ParseFloat(income["income"])
             rest == NormalizedTrades(Tail(records), utc_offset)
         IN  IF pnl # 0
             THEN <<[symbol |-> income["symbol"],
                     closed_pnl |-> pnl,
                     is_win |-> pnl > 0,
                     closed_time_dt |-> FromTimestamp(income["time"] \div 1000, utc_offset),
                     transaction_id |-> income["tranId"]]>> \o rest
             ELSE rest

\* answer = [failed, records]; any exception makes get_recent_trades return []
GetRecentTrades(answer, utc_offset) ==
    IF \/ answer.failed
       \/ \E i \in 1..Len(answer.records) : ~CanFloat(answer.records[i]["income"])
    THEN <<>>
    ELSE SortNewestFirst(NormalizedTrades(answer.records, utc_offset))

Income(pnl, closed_s, id) ==
    [symbol |-> "BTCUSDT", income |-> pnl, time |-> closed_s * 1000, tranId |-> id]

\* what futures_income_history may answer, oldest record first: a failure,
\* nothing, one loss, two losses, two losses and a win, five wins, four
\* wins, three wins and two fresh losses, four wins and a record of zero
\* PnL, a record whose income does not parse, four wins and one more win
\* 80 minutes back
IncomeAnswers ==
    {[failed |-> TRUE, records |-> <<>>]}
    \cup
    {[failed |-> FALSE, records |-> rs] : rs \in
        {<<>>,
         <<Income("-1", 0 - 60, 1)>>,
         <<Income("-1", 0 - 120, 1), Income("-1", 0 - 60, 2)>>,
         <<Income("-1", 0 - 120, 1), Income("-1", 0 - 60, 2), Income("1", 0 - 30, 3)>>,
         <<Income("1", 0 - 1500, 1), Income("1", 0 - 400, 2), Income("1", 0 - 300, 3),
           Income("1", 0 - 200, 4), Income("1", 0 - 100, 5)>>,
         <<Income("1", 0 - 400, 1), Income("1", 0 - 300, 2), Income("1", 0 - 200, 3),
           Income("1", 0 - 100, 4)>>,
         <<Income("1", 0 - 500, 1), Income("1", 0 - 400, 2), Income("1", 0 - 300, 3),
           Income("-1", 0 - 120, 4), Income("-1", 0 - 60, 5)>>,
         <<Income("1", 0 - 400, 1), Income("1", 0 - 300, 2), Income("1", 0 - 200, 3),
           Income("1", 0 - 100, 4), Income("0", 0 - 50, 5)>>,
         <<Income("-1", 0 - 120, 1), Income("abc", 0 - 60, 2)>>,
         <<Income("1", 0 - 4800, 1), Income("1", 0 - 400, 2), Income("1", 0 - 300, 3),
           Income("1", 0 - 200, 4), Income("1", 0 - 100, 5)>>}}

\* what futures_account may answer to the get_positions of the revenge
\* check: no position, one open position, an open position behind one whose
\* positionAmt does not parse
RevengeAccounts ==
    {[positions |-> ps, totalWalletBalance |-> Balance, stops |-> {}] : ps \in
        {<<>>,
         <<Raw("BTCUSDT", "1", "100", "0")>>,
         <<Raw("BTCUSDT", "abc", "100", "0"), Raw("ETHUSDT", "1", "100", "0")>>}}

(***************************************************************************)
(* SpecRevenge: check_revenge_pattern called again and again on one        *)
(* engine (one call, start to return, in one step).                        *)
(***************************************************************************)
\* _create_alert(rule_type='revenge', position, pattern_type, details)
CreateRevengeAlert(found, t) ==
    [pattern_type |-> found.pattern_type, details |-> found.details]
        @@ CreateAlertDict("revenge", found.position, t)

\* CheckRevengePattern with the cooldown of the revenge rule applied
CheckRevengePattern_cooled(answer, utc_offset, account) ==
    /\ revenge # <<>> => utc_offset = revenge.utc_offset
    /\ LET trades == GetRecentTrades(answer, utc_offset)
           poss == GetPositions(account, account.stops)
           found == RevengePattern(trades, poss, now)
           fire == /\ found # <<>>
                   /\ ShouldAlert(last_alert_times, "revenge",
                                  Get(found[1].position, "symbol", ""), now)
       IN  /\ last_alert_times' =
                  IF ~fire THEN last_alert_times
                  ELSE UpdateLastAlertTime(last_alert_times, "revenge",
                                           Get(found[1].position, "symbol", ""), now)
           /\ revenge' =
                  [answer |-> answer, utc_offset |-> utc_offset, account |-> account,
                   at |-> now, before |-> last_alert_times,
                   trades |-> trades, positions |-> poss,
                   result |-> IF ~fire THEN <<>>
                              ELSE <<CreateRevengeAlert(found[1], now)>>]
    /\ UNCHANGED <<now, pc, ri, position, pending, alerts, evals, updates, fired,
                   user_vars, calc_vars, recap_vars, click_vars, recap_run, settings, engine, monitor_vars>>

\* lines 52-109; the host keeps its UTC offset from call to call
CheckRevengePattern(answer, utc_offset, account) ==
    /\ revenge # <<>> => utc_offset = revenge.utc_offset
    /\ LET trades == GetRecentTrades(answer, utc_offset)
           poss == GetPositions(account, account.stops)
           found == RevengePattern(trades, poss, now)
       IN  /\ last_alert_times' =
                  IF found = <<>> THEN last_alert_times
                  ELSE UpdateLastAlertTime(last_alert_times, "revenge",
                                           Get(found[1].position, "symbol", ""), now)
           /\ revenge' =
                  [answer |-> answer, utc_offset |-> utc_offset, account |-> account,
                   at |-> now, before |-> last_alert_times,
                   trades |-> trades, positions |-> poss,
                   result |-> IF found = <<>> THEN <<>>
                              ELSE <<CreateRevengeAlert(found[1], now)>>]
    /\ UNCHANGED <<now, pc, ri, position, pending, alerts, evals, updates, fired,
                   user_vars, calc_vars, recap_vars, click_vars, recap_run, settings, engine, monitor_vars>>

RevengeSteps == {240, 660}

CallRevenge ==
    \E answer \in IncomeAnswers, utc_offset \in UtcOffsets, account \in RevengeAccounts :
        CheckRevengePattern(answer, utc_offset, account)

TimeRevenge ==
    /\ \E d \in RevengeSteps : now + d <= MaxRevengeTime /\ now' = now + d
    /\ UNCHANGED <<last_alert_times, pc, ri, position, pending, alerts, evals, updates,
                   fired, user_vars, aux_vars>>

NextRevenge == CallRevenge \/ TimeRevenge

SpecRevenge == Init /\ [][NextRevenge]_vars

(***************************************************************************)
(* main.py: check_user_positions(user, db), statement by statement.        *)
(* upc is "idle" outside a call, "position" at the head of the loop over   *)
(* positions, "engine" inside engine.check_all_rules, "alerts" at the head *)
(* of the loop over its alerts, "send" at telegram_bot.send_alert,         *)
(* "revenge" at engine.check_revenge_pattern, "revenge_send" at the send   *)
(* of its alert, "last_seen" at the last commit and "ended" at the return. *)
(* The engine of the call is caller 1's.                                   *)
(***************************************************************************)
\* the exchange's answers: no position, one position (at high risk, at low
\* risk, closed), two well-formed positions, and a malformed position
\* (unparseable positionAmt, unparseable markPrice, no symbol) followed by
\* a well-formed one
Batches ==
    {<<>>,
     <<Raw("BTCUSDT", "1", "100", "0")>>,
     <<Raw("BTCUSDT", "-1", "10", "0")>>,
     <<Raw("ETHUSDT", "0", "100", "0")>>,
     <<Raw("BTCUSDT", "1", "100", "0"), Raw("ETHUSDT", "1", "100", "97")>>,
     <<Raw("BTCUSDT", "abc", "100", "0"), Raw("ETHUSDT", "1", "100", "0")>>,
     <<Raw("BTCUSDT", "1", "abc", "0"), Raw("ETHUSDT", "1", "100", "0")>>,
     <<Without(Raw("BTCUSDT", "1", "100", "0"), "symbol"),
       Raw("ETHUSDT", "1", "100", "0")>>}

StopSets == {{}, Symbols}

\* Alert(...) as check_user_positions builds it from an engine alert
AlertRow(u, alert) ==
    [alert_id |-> alert.alert_id,
     user_id |-> u,
     rule_type |-> alert.rule_type,
     symbol |-> alert.symbol,
     triggered_at |-> alert.triggered_at,
     telegram_message_id |-> 0,
     is_acknowledged |-> FALSE,
     acknowledged_at |-> <<>>]

\* Alert(...) as check_user_positions builds it from a revenge alert
RevengeRow(u, alert) ==
    [alert_id |-> alert.alert_id,
     user_id |-> u,
     rule_type |-> alert.rule_type,
     symbol |-> "SYSTEM",
     triggered_at |-> alert.triggered_at,
     telegram_message_id |-> 0,
     is_acknowledged |-> FALSE,
     acknowledged_at |-> <<>>]

\* db.commit() of a new row: alert_id is unique (models.py)
CommitFails(row) == \E r \in db_alerts : r.alert_id = row.alert_id

\* the except clause of check_user_positions
Fail ==
    /\ outcome' = "error"
    /\ upc' = "ended"
    /\ todo' = <<>>

\* await asyncio.sleep(settings.POLL_INTERVAL_SECONDS) between two cycles
Sleep ==
    /\ upc = "idle"
    /\ now + POLL_INTERVAL_SECONDS <= MaxPollTime
    /\ now' = now + POLL_INTERVAL_SECONDS
    /\ checked' = {}
    /\ UNCHANGED <<engine_vars, user_vars, calc_vars, recap_vars, click_vars, recap_run, settings, engine, mpc, active, due, revenge>>

\* Begin with an engine that starts from the alerts stored for any user
Begin_shared_cooldowns(u, answer) ==
    /\ upc = "idle"
    /\ u \notin checked
    /\ checked' = checked \cup {u}
    /\ Cardinality(db_alerts) < MaxRows
    /\ user' = u
    /\ batch' = answer
    /\ positions' = GetPositions(answer, answer.stops)
    /\ evaluated' = <<>>
    /\ todo' = <<>>
    /\ IF GetPositions(answer, answer.stops) = <<>>
       THEN /\ outcome' = "no_positions"
            /\ upc' = "ended"
            /\ pidx' = 0
            /\ UNCHANGED <<last_alert_times, fired>>
       ELSE /\ outcome' = "running"
            /\ upc' = "position"
            /\ pidx' = 1
            /\ last_alert_times' =
                   [k \in {Key(r.rule_type, r.symbol) : r \in db_alerts} |->
                       CHOOSE t \in {r.triggered_at : r \in db_alerts} :
                           /\ \E r \in db_alerts :
                                 Key(r.rule_type, r.symbol) = k /\ r.triggered_at = t
                           /\ \A r \in db_alerts :
                                 Key(r.rule_type, r.symbol) = k => r.triggered_at <= t]
            /\ fired' = {}
    /\ UNCHANGED <<now, pc, ri, position, pending, alerts, evals, updates, db_alerts>>
    /\ UNCHANGED <<calc_vars, recap_vars, click_vars, recap_run, settings, engine, mpc, active, due, revenge>>

\* lines 139-154: the client, get_positions, the early return, the engine;
\* the loop of line 121 hands each user over once per cycle
Begin(u, answer) ==
    /\ upc = "idle"
    /\ u \notin checked
    /\ checked' = checked \cup {u}
    /\ Cardinality(db_alerts) < MaxRows
    /\ user' = u
    /\ batch' = answer
    /\ positions' = GetPositions(answer, answer.stops)
    /\ evaluated' = <<>>
    /\ todo' = <<>>
    /\ IF GetPositions(answer, answer.stops) = <<>>
       THEN /\ outcome' = "no_positions"
            /\ upc' = "ended"
            /\ pidx' = 0
            /\ UNCHANGED <<last_alert_times, fired>>
       ELSE /\ outcome' = "running"
            /\ upc' = "position"
            /\ pidx' = 1
            /\ last_alert_times' = <<>>
            /\ fired' = {}
    /\ UNCHANGED <<now, pc, ri, position, pending, alerts, evals, updates, db_alerts>>
    /\ UNCHANGED <<calc_vars, recap_vars, click_vars, recap_run, settings, engine, mpc, active, due, revenge>>

\* line 158: alerts = engine.check_all_rules(position)
EvalPosition ==
    /\ upc = "position"
    /\ CheckAllRules(1, positions[pidx])
    /\ evaluated' = Append(evaluated, positions[pidx])
    /\ upc' = "engine"
    /\ UNCHANGED <<user, batch, positions, pidx, todo, db_alerts, outcome>>
    /\ UNCHANGED aux_vars

InEngine ==
    /\ upc = "engine"
    /\ EngineStep(1)
    /\ UNCHANGED <<user_vars, aux_vars>>

TakeAlerts ==
    /\ upc = "engine"
    /\ todo' = alerts[1]
    /\ ReturnAlerts(1)
    /\ upc' = "alerts"
    /\ UNCHANGED <<user, batch, positions, pidx, db_alerts, evaluated, outcome>>
    /\ UNCHANGED aux_vars

\* Persist with the send attempted before anything is stored
Persist_unsaved ==
    /\ upc = "alerts"
    /\ todo # <<>>
    /\ upc' = "send"
    /\ UNCHANGED <<todo, outcome, db_alerts>>
    /\ UNCHANGED <<now, engine_vars, user, batch, positions, pidx, evaluated>>
    /\ UNCHANGED aux_vars

\* lines 162-179: db.add(db_alert); db.commit()
Persist ==
    /\ upc = "alerts"
    /\ todo # <<>>
    /\ IF CommitFails(AlertRow(user, Head(todo)))
       THEN Fail /\ UNCHANGED db_alerts
       ELSE /\ db_alerts' = db_alerts \cup {AlertRow(user, Head(todo))}
            /\ upc' = "send"
            /\ UNCHANGED <<todo, outcome>>
    /\ UNCHANGED <<now, engine_vars, user, batch, positions, pidx, evaluated>>
    /\ UNCHANGED aux_vars

\* the row of the alert being sent, with the message id Telegram gave
Sent(rows, alert_id, message_id) ==
    {IF r.alert_id = alert_id THEN [r EXCEPT !.telegram_message_id = message_id] ELSE r :
        r \in rows}

\* lines 182-191: send_alert answers a message id, or None (0) on any failure
Send(message_id) ==
    /\ upc = "send"
    /\ db_alerts' = Sent(db_alerts, Head(todo).alert_id, message_id)
    /\ todo' = Tail(todo)
    /\ upc' = "alerts"
    /\ UNCHANGED <<now, engine_vars, user, batch, positions, pidx, evaluated, outcome>>
    /\ UNCHANGED aux_vars

NextPosition ==
    /\ upc = "alerts"
    /\ todo = <<>>
    /\ pidx' = pidx + 1
    /\ upc' = IF pidx = Len(positions) THEN "revenge" ELSE "position"
    /\ UNCHANGED <<now, engine_vars, user, batch, positions, todo, db_alerts, evaluated,
                   outcome>>
    /\ UNCHANGED aux_vars

\* lines 194-209: check_revenge_pattern, then db.add and db.commit of its alert
Revenge(trades, poss) ==
    /\ upc = "revenge"
    /\ LET found == RevengePattern(trades, poss, now)
       IN  IF found = <<>>
           THEN /\ upc' = "last_seen"
                /\ UNCHANGED <<last_alert_times, fired, todo, db_alerts, outcome>>
           ELSE LET pos == found[1].position
                    alert == CreateAlertDict("revenge", pos, now)
                IN  /\ last_alert_times' =
                           UpdateLastAlertTime(last_alert_times, "revenge",
                                               Get(pos, "symbol", ""), now)
                    /\ fired' = fired \cup {<<"revenge", Get(pos, "symbol", "")>>}
                    /\ IF CommitFails(RevengeRow(user, alert))
                       THEN Fail /\ UNCHANGED db_alerts
                       ELSE /\ db_alerts' = db_alerts \cup {RevengeRow(user, alert)}
                            /\ todo' = <<alert>>
                            /\ upc' = "revenge_send"
                            /\ UNCHANGED outcome
    /\ UNCHANGED <<now, pc, ri, position, pending, alerts, evals, updates, user, batch,
                   positions, pidx, evaluated>>
    /\ UNCHANGED aux_vars

\* lines 212-221
RevengeSend(message_id) ==
    /\ upc = "revenge_send"
    /\ db_alerts' = Sent(db_alerts, Head(todo).alert_id, message_id)
    /\ todo' = <<>>
    /\ upc' = "last_seen"
    /\ UNCHANGED <<now, engine_vars, user, batch, positions, pidx, evaluated, outcome>>
    /\ UNCHANGED aux_vars

\* lines 224-225
LastSeen ==
    /\ upc = "last_seen"
    /\ outcome' = "ok"
    /\ upc' = "ended"
    /\ UNCHANGED <<now, engine_vars, user, batch, positions, pidx, todo, db_alerts,
                   evaluated>>
    /\ UNCHANGED aux_vars

\* check_user_positions returns: its locals, the engine among them, are gone
EndCheck ==
    /\ upc = "ended"
    /\ upc' = "idle"
    /\ user' = 0
    /\ batch' = NoAnswer
    /\ positions' = <<>>
    /\ pidx' = 0
    /\ todo' = <<>>
    /\ evaluated' = <<>>
    /\ outcome' = "none"
    /\ last_alert_times' = <<>>
    /\ fired' = {}
    /\ UNCHANGED <<now, pc, ri, position, pending, alerts, evals, updates, db_alerts>>
    /\ UNCHANGED aux_vars

MessageIds == {0, 1}

CheckUser ==
    \E u \in Users, ps \in Batches, st \in StopSets :
        Begin(u, [positions |-> ps, totalWalletBalance |-> Balance, stops |-> st])

SendAlert == \E m \in MessageIds : Send(m)

CheckRevenge == \E trades \in TradeLists, poss \in {positions, <<>>} : Revenge(trades, poss)

SendRevenge == \E m \in MessageIds : RevengeSend(m)

NextUser ==
    \/ Sleep
    \/ CheckUser
    \/ EvalPosition
    \/ InEngine
    \/ TakeAlerts
    \/ Persist
    \/ SendAlert
    \/ NextPosition
    \/ CheckRevenge
    \/ SendRevenge
    \/ LastSeen
    \/ EndCheck

SpecUser == Init /\ [][NextUser]_vars

(***************************************************************************)
(* SpecConfig: the settings are whatever Settings() loaded from the        *)
(* environment; RuleEngine(client) is then built and check_all_rules runs  *)
(* under them (one call, start to return, in one step).                    *)
(***************************************************************************)
CondUnder(st, rule_type, pos) ==
    CASE rule_type = "high_risk" -> Get(pos, "risk_pct", 0) > st.MAX_RISK_PCT
      [] rule_type = "liq_risk" ->
            Get(pos, "liq_distance_pct", 999 * 100) < st.MIN_LIQ_DISTANCE_PCT
      [] rule_type = "no_sl" -> ~Get(pos, "has_stop_loss", FALSE)

ShouldAlertUnder(st, lat, rule_type, symbol, t) ==
    IF Key(rule_type, symbol) \in DOMAIN lat
       /\ t - lat[Key(rule_type, symbol)] < Get(st.ALERT_COOLDOWNS, rule_type, DefaultCooldown)
    THEN FALSE
    ELSE TRUE

\* rules i.. of check_all_rules: the alerts appended and the map afterwards
RECURSIVE CheckRulesUnder(_, _, _, _, _)
CheckRulesUnder(st, lat, pos, t, i) ==
    IF i > Len(RuleOrder) THEN [alerts |-> <<>>, last_alert_times |-> lat]
    ELSE LET r == RuleOrder[i]
             fire == /\ CondUnder(st, r, pos)
                     /\ ShouldAlertUnder(st, lat, r, pos["symbol"], t)
             rest == CheckRulesUnder(
                         st,
                         IF fire THEN UpdateLastAlertTime(lat, r, pos["symbol"], t) ELSE lat,
                         pos, t, i + 1)
         IN  [alerts |-> (IF fire THEN <<CreateAlertDict(r, pos, t)>> ELSE <<>>)
                            \o rest.alerts,
              last_alert_times |-> rest.last_alert_times]

\* RuleEngine.__init__: no look at the settings
NewEngine ==
    /\ engine = "none"
    /\ engine' = "ready"
    /\ last_alert_times' = <<>>
    /\ UNCHANGED <<now, pc, ri, position, pending, alerts, evals, updates, fired,
                   user_vars, calc_vars, recap_vars, click_vars, recap_run, settings, monitor_vars, revenge>>

EvaluateUnder(pos) ==
    /\ engine = "ready"
    /\ LET out == CheckRulesUnder(settings, last_alert_times, pos, now, 1)
       IN  /\ alerts' = [alerts EXCEPT ![1] = out.alerts]
           /\ last_alert_times' = out.last_alert_times
    /\ position' = [position EXCEPT ![1] = pos]
    /\ UNCHANGED <<now, pc, ri, pending, evals, updates, fired,
                   user_vars, calc_vars, recap_vars, click_vars, recap_run, settings, engine, monitor_vars, revenge>>

\* the positions evaluated under the loaded settings: those of
\* EnginePositions and a long at mark 100 with its liquidation price at 95
ConfigPositions ==
    EnginePositions
    \cup {Enriched(Raw("BTCUSDT", "1", "100", "95"), ParseFloat(Balance), Symbols)}

Evaluate == \E pos \in ConfigPositions : EvaluateUnder(pos)

InitConfig ==
    /\ InitEngine
    /\ InitUser
    /\ InitMonitor
    /\ InitCalc
    /\ InitRecap
    /\ InitClick
    /\ revenge = <<>>
    /\ settings \in {LoadSettings(env) : env \in Envs}
    /\ engine = "none"

NextConfig == NewEngine \/ Evaluate \/ Time

SpecConfig == InitConfig /\ [][NextConfig]_vars

(***************************************************************************)
(* main.py: background_monitor.  mpc is "sleep" at the sleep that opens a  *)
(* cycle (line 113), "session" at the with statement (line 116), "except"  *)
(* in the handler of line 130 and "stopped" once the task is cancelled.    *)
(***************************************************************************)
\* database.py: get_db is wrapped by @contextmanager, get_db_dependency is
\* a plain generator function
SessionSources == [get_db |-> "context_manager", get_db_dependency |-> "generator"]

\* the with statement calls __enter__ of its object: a generator has none,
\* and the statement raises TypeError before its body runs
WithRaises(kind) == kind # "context_manager"

\* register_user: a new row of users, is_active by default
Register(u) ==
    /\ u \notin active
    /\ active' = active \cup {u}
    /\ UNCHANGED <<now, engine_vars, user_vars, calc_vars, recap_vars, click_vars, recap_run, settings, engine, mpc, due, checked, revenge>>

\* line 113: the sleep that opens a cycle
MonitorSleep ==
    /\ mpc = "sleep"
    /\ now + POLL_INTERVAL_SECONDS <= MaxMonitorTime
    /\ now' = now + POLL_INTERVAL_SECONDS
    /\ mpc' = "session"
    /\ due' = active
    /\ checked' = {}
    /\ UNCHANGED <<engine_vars, user_vars, calc_vars, recap_vars, click_vars, recap_run, settings, engine, active, revenge>>

\* lines 116-125: the with statement and, inside it, the query of the
\* active users and check_user_positions for each of them (an exception of
\* one call is caught at line 124, the loop goes on with the next user)
MonitorSession ==
    /\ mpc = "session"
    /\ IF WithRaises(SessionSources["get_db_dependency"])
       THEN mpc' = "except" /\ checked' = checked
       ELSE mpc' = "sleep" /\ checked' = active
    /\ UNCHANGED <<now, engine_vars, user_vars, calc_vars, recap_vars, click_vars, recap_run, settings, engine, active, due, revenge>>

\* lines 130-132: the handler prints and sleeps, the loop goes on
MonitorExcept ==
    /\ mpc = "except"
    /\ now + MONITOR_ERROR_SLEEP <= MaxMonitorTime
    /\ now' = now + MONITOR_ERROR_SLEEP
    /\ mpc' = "sleep"
    /\ UNCHANGED <<engine_vars, user_vars, calc_vars, recap_vars, click_vars, recap_run, settings, engine, active, due, checked, revenge>>

\* lifespan, line 64: monitoring_task.cancel() reaches the task at a sleep
Shutdown ==
    /\ mpc \in {"sleep", "except"}
    /\ mpc' = "stopped"
    /\ UNCHANGED <<now, engine_vars, user_vars, calc_vars, recap_vars, click_vars, recap_run, settings, engine, active, due, checked, revenge>>

RegisterUser == \E u \in Users : Register(u)

NextMonitor ==
    \/ RegisterUser
    \/ MonitorSleep
    \/ MonitorSession
    \/ MonitorExcept
    \/ Shutdown

SpecMonitor == Init /\ [][NextMonitor]_vars

(***************************************************************************)
(* Properties of one engine.                                               *)
(***************************************************************************)
\* the check of the i-th rule of c's call is over
Over(c, i) == i < ri[c] \/ pc[c] = "done"

\* the alerts of rule r that c's call holds: those in its list and the one
\* _create_alert is handing back
Held(c) == alerts[c] \o (IF pc[c] = "return" THEN pending[c] ELSE <<>>)

HeldOf(c, r) == SelectSeq(Held(c), LAMBDA a : a.rule_type = r)

\* _should_alert answered True in the i-th rule check of c's call
Fired(c, i) ==
    \/ i = ri[c] /\ pc[c] \in {"create", "update", "return"}
    \/ Over(c, i) /\ HeldOf(c, evals[c][i].rule) # <<>>

\* the i-th rule check of c's call has decided
Decided(c, i) == Over(c, i) \/ (i = ri[c] /\ pc[c] \in {"create", "update", "return"})

InWindow(e) == e.had /\ e.elapsed < ALERT_COOLDOWNS[e.rule]

\* C1: on one engine, check_high_risk on a snapshot with risk_pct >
\* MAX_RISK_PCT returns exactly one alert when no high_risk entry for the
\* symbol lies within the high_risk cooldown, and returns none when the
\* evaluation falls strictly inside the window of a recorded entry.
C1_HighRiskOncePerWindow ==
    \A c \in Callers : \A i \in 1..Len(evals[c]) :
        LET e == evals[c][i]
        IN  (e.rule = "high_risk" /\ e.cond /\ Over(c, i)) =>
                /\ (~e.had \/ e.elapsed >= ALERT_COOLDOWNS["high_risk"]) =>
                       /\ Len(HeldOf(c, "high_risk")) = 1
                       /\ HeldOf(c, "high_risk")[1].symbol = e.symbol
                /\ (e.had /\ e.elapsed < ALERT_COOLDOWNS["high_risk"]) =>
                       HeldOf(c, "high_risk") = <<>>

C1_Witness ==
    \E c \in Callers : \E i \in 1..Len(evals[c]) :
        /\ evals[c][i].rule = "high_risk" /\ evals[c][i].cond /\ Over(c, i)
        /\ evals[c][i].had /\ evals[c][i].elapsed < ALERT_COOLDOWNS["high_risk"]
        /\ evals[c][i].elapsed > 0

\* C3: _should_alert(rule, symbol) answers False exactly when the map holds
\* an entry for (rule, symbol) and the time since it is strictly less than
\* the rule's cooldown; with no entry, or elapsed >= cooldown (equality
\* included), it answers True.
C3_ShouldAlertIff ==
    \A c \in Callers : \A i \in 1..Len(evals[c]) :
        (evals[c][i].cond /\ Decided(c, i)) =>
            (Fired(c, i) <=> ~InWindow(evals[c][i]))

C3_Witness ==
    \E c \in Callers : \E i \in 1..Len(evals[c]) :
        /\ evals[c][i].cond /\ Decided(c, i)
        /\ evals[c][i].had
        /\ evals[c][i].elapsed = ALERT_COOLDOWNS[evals[c][i].rule]
        /\ Fired(c, i)

\* C4: an evaluation of (rule, symbol) is suppressed only when an alert was
\* recorded for that same rule and that same symbol: an entry of another
\* symbol or of another rule never suppresses it.
C4_SuppressionScopedToKey ==
    \A c \in Callers : \A i \in 1..Len(evals[c]) :
        (evals[c][i].cond /\ Decided(c, i) /\ ~Fired(c, i)) =>
            <<evals[c][i].rule, evals[c][i].symbol>> \in fired

C4_Witness ==
    \E c \in Callers :
        /\ <<"high_risk", "BTCUSDT">> \in fired
        /\ now - last_alert_times["high_risk:BTCUSDT"] < ALERT_COOLDOWNS["high_risk"]
        /\ <<"high_risk", "ETHUSDT">> \notin fired
        /\ pc[c] = "create" /\ Rule(c) = "high_risk"
        /\ position[c]["symbol"] = "ETHUSDT"

\* C5: an evaluation whose condition holds but which the cooldown
\* suppresses returns no alert and leaves the stored time of its key where
\* it was.
C5_SuppressedLeavesClock ==
    \A c \in Callers : \A i \in 1..Len(evals[c]) :
        LET e == evals[c][i]
        IN  (e.cond /\ InWindow(e) /\ Decided(c, i)) =>
                /\ HeldOf(c, e.rule) = <<>>
                /\ (e.rule \o ":" \o e.symbol) \in DOMAIN last_alert_times
                /\ last_alert_times[e.rule \o ":" \o e.symbol] = e.stored
                /\ updates[c] = [j \in 1..Len(Held(c)) |->
                                    Held(c)[j].rule_type \o ":" \o Held(c)[j].symbol]

C5_Witness ==
    \E c \in Callers : \E i \in 1..Len(evals[c]) :
        /\ evals[c][i].cond /\ InWindow(evals[c][i]) /\ Over(c, i)
        /\ evals[c][i].rule = "no_sl"
        /\ now > evals[c][i].stored

\* C6: the cooldown map changes only in _update_last_alert_time, which runs
\* once for each alert handed back and not at all in a rule check that
\* hands back none.
C6_OneUpdatePerAlert ==
    /\ [](\A c \in Callers :
            updates[c] = [j \in 1..Len(Held(c)) |->
                            Held(c)[j].rule_type \o ":" \o Held(c)[j].symbol])
    /\ [][(last_alert_times' # last_alert_times) =>
              \E c \in Callers : pc[c] = "update" /\ pc'[c] = "return"]_vars
    /\ [][\A c \in Callers :
              (pc[c] = "update" /\ pc'[c] = "return") =>
                  /\ pending[c][1].rule_type \o ":" \o pending[c][1].symbol
                        \in DOMAIN last_alert_times'
                  /\ last_alert_times'[pending[c][1].rule_type \o ":" \o pending[c][1].symbol]
                        = now]_vars

C6_Witness ==
    \E c \in Callers :
        /\ pc[c] = "done"
        /\ Len(updates[c]) = 2
        /\ Len(evals[c]) = 3

\* C7: whenever a caller holds an alert handed back by _create_alert, the
\* cooldown entry of that alert's rule and symbol is already in the map,
\* written no earlier than the alert was built.
C7_CooldownBeforeReturn ==
    \A c \in Callers : \A j \in 1..Len(Held(c)) :
        LET a == Held(c)[j]
        IN  /\ (a.rule_type \o ":" \o a.symbol) \in DOMAIN last_alert_times
            /\ last_alert_times[a.rule_type \o ":" \o a.symbol] >= a.triggered_at

C7_Witness == \E c \in Callers : pc[c] = "return" /\ pending[c] # <<>>

\* C8: of two evaluations of one rule for one symbol running at once on the
\* same cooldown map, at most one hands back an alert.
C8_AtMostOneConcurrentAlert ==
    \A c1, c2 \in Callers :
        c1 # c2 =>
            \A j1 \in 1..Len(Held(c1)), j2 \in 1..Len(Held(c2)) :
                ~(/\ Held(c1)[j1].rule_type = Held(c2)[j2].rule_type
                  /\ Held(c1)[j1].symbol = Held(c2)[j2].symbol
                  /\ Abs(Held(c1)[j1].triggered_at - Held(c2)[j2].triggered_at)
                        < ALERT_COOLDOWNS[Held(c1)[j1].rule_type])

\* C9: a snapshot violating HighRisk and NoStopLoss gets both alerts from
\* one check_all_rules call when neither is cooling down; evaluated again
\* at least 300 s but less than 600 s after both were recorded, it gets the
\* high_risk alert and no no_sl alert.
C9_IndependentWindows ==
    \A c \in Callers :
        (/\ pc[c] = "done"
         /\ HighRiskCond(position[c]) /\ NoStopLossCond(position[c])) =>
            /\ (~evals[c][1].had /\ ~evals[c][3].had) =>
                   /\ Len(HeldOf(c, "high_risk")) = 1
                   /\ Len(HeldOf(c, "no_sl")) = 1
            /\ (/\ evals[c][1].had /\ evals[c][1].elapsed >= 300
                 /\ evals[c][3].had /\ evals[c][3].elapsed < 600) =>
                   /\ Len(HeldOf(c, "high_risk")) = 1
                   /\ HeldOf(c, "no_sl") = <<>>
                   /\ (~LiqRiskCond(position[c]) => Len(alerts[c]) = 1)

C9_Witness ==
    \E c \in Callers :
        /\ pc[c] = "done"
        /\ HighRiskCond(position[c]) /\ NoStopLossCond(position[c])
        /\ evals[c][1].had /\ evals[c][1].elapsed >= 300
        /\ evals[c][3].had /\ evals[c][3].elapsed < 600
        /\ evals[c][1].stored = evals[c][3].stored

(***************************************************************************)
(* Properties of the polling handler.                                      *)
(***************************************************************************)
PerPositionRules == {"high_risk", "liq_risk", "no_sl"}

\* C2: over the calls of check_user_positions for one user, two alerts of
\* one per-position rule for one symbol that were both persisted and sent
\* lie at least that rule's cooldown apart.
C2_OneAlertPerWindowAcrossCycles ==
    \A r1, r2 \in db_alerts :
        (/\ r1 # r2
         /\ r1.user_id = r2.user_id
         /\ r1.rule_type = r2.rule_type
         /\ r1.rule_type \in PerPositionRules
         /\ r1.symbol = r2.symbol
         /\ r1.telegram_message_id # 0
         /\ r2.telegram_message_id # 0) =>
            Abs(r1.triggered_at - r2.triggered_at) >= ALERT_COOLDOWNS[r1.rule_type]

\* a snapshot of the exchange with no symbol, or with a numeric field that
\* is missing or does not parse
Malformed(raw) ==
    \/ "symbol" \notin DOMAIN raw
    \/ \E f \in NumericFields : f \notin DOMAIN raw \/ ~CanFloat(raw[f])

RECURSIVE WellFormedOpen(_, _, _)
WellFormedOpen(raws, balance, stops) ==
    IF raws = <<>> THEN <<>>
    ELSE IF ~Malformed(Head(raws)) /\ ParseFloat(Head(raws)["positionAmt"]) # 0
    THEN <<Enriched(Head(raws), balance, stops)>>
            \o WellFormedOpen(Tail(raws), balance, stops)
    ELSE WellFormedOpen(Tail(raws), balance, stops)

\* C10: a call of check_user_positions whose batch holds a malformed
\* snapshot ends without an exception, hands no malformed snapshot to the
\* engine, and has evaluated every well-formed open snapshot of the batch.
C10_MalformedSnapshotSkipped ==
    (upc = "ended" /\ \E i \in 1..Len(batch.positions) : Malformed(batch.positions[i])) =>
        /\ outcome # "error"
        /\ evaluated = WellFormedOpen(batch.positions,
                                       ParseFloat(batch.totalWalletBalance), batch.stops)

(***************************************************************************)
(* Properties of the polling loop.                                         *)
(***************************************************************************)
\* C11: a failure inside a polling cycle leaves no user of that cycle
\* unevaluated (when an exception reaches the handler of the loop, every
\* user that was due in the cycle has been given to check_user_positions),
\* and the handler leads on to the next cycle.
C11_FailureIsolated ==
    /\ [][(mpc = "session" /\ mpc' = "except") => due' \subseteq checked']_vars
    /\ [][(mpc = "except" /\ mpc' # "except") => mpc' \in {"sleep", "stopped"}]_vars

\* C12: once the body of a polling cycle is over, check_user_positions has
\* been invoked for every user that was active when the cycle began.
C12_EveryActiveUserChecked ==
    mpc \in {"sleep", "except", "stopped"} => checked = due

(***************************************************************************)
(* Properties of the configuration.                                        *)
(***************************************************************************)
\* every limit and every cooldown is non-negative
ValidSettings(st) ==
    /\ st.MAX_RISK_PCT >= 0
    /\ st.MIN_LIQ_DISTANCE_PCT >= 0
    /\ \A r \in DOMAIN st.ALERT_COOLDOWNS : st.ALERT_COOLDOWNS[r] >= 0

\* C13: under settings with a negative limit or a negative cooldown no
\* engine is ever built and no position is ever evaluated.
C13_InvalidConfigRefused ==
    ~ValidSettings(settings) => (engine = "none" /\ position[1] = NoPosition)

(***************************************************************************)
(* Properties of the alert identity.                                       *)
(***************************************************************************)
\* the alerts of the running check_user_positions call that the engine has
\* handed back and that are not yet rows of the alerts table
Unpersisted ==
    IF upc = "alerts" THEN todo
    ELSE IF upc = "send" THEN Tail(todo)
    ELSE <<>>

\* C14: two distinct alerts never carry the same alert_id: an alert the
\* engine has handed back has an id different from that of every alert
\* already stored (of any user, rule, symbol and cycle) and from that of
\* every other alert handed back with it.
C14_AlertIdsUnique ==
    /\ \A r \in db_alerts : \A j \in 1..Len(Unpersisted) :
           Unpersisted[j].alert_id # r.alert_id
    /\ \A i, j \in 1..Len(Unpersisted) :
           i # j => Unpersisted[i].alert_id # Unpersisted[j].alert_id

(***************************************************************************)
(* Properties of the revenge check.  What the claims say of the trades is  *)
(* read off the exchange's records: a trade is a record that closed as a   *)
(* win or as a loss, its closing time the record's time.                   *)
(***************************************************************************)
\* the exchange answered, and every income of the answer parses
Readable(answer) ==
    /\ ~answer.failed
    /\ \A i \in 1..Len(answer.records) : CanFloat(answer.records[i]["income"])

\* the closing times (seconds) of the trades that closed less than secs
\* before t: all of them, or the losses only
ClosedSince(answer, t, secs, losses_only) ==
    LET idx == {i \in 1..Len(answer.records) :
                   /\ ParseFloat(answer.records[i]["income"]) # 0
                   /\ losses_only => ParseFloat(answer.records[i]["income"]) < 0
                   /\ t - answer.records[i]["time"] \div 1000 < secs}
    IN  [i \in idx |-> answer.records[i]["time"] \div 1000]

Latest(times) ==
    CHOOSE x \in {times[i] : i \in DOMAIN times} :
        \A i \in DOMAIN times : times[i] <= x

\* the user holds an open position: the exchange lists one with an amount
\* other than zero
HoldsOpenPosition(account) ==
    \E i \in 1..Len(account.positions) :
        /\ AmtReadable(account.positions[i])
        /\ ParseFloat(account.positions[i]["positionAmt"]) # 0

QuickFired(call) ==
    call.result # <<>> /\ call.result[1].pattern_type = "Quick re-entry after losses"

\* C15: a check_revenge_pattern call at whose time exactly 5 trades have
\* closed in the last 30 minutes returns an alert, whether they were wins
\* or losses; one at whose time exactly 4 have returns none, unless it is
\* the quick re-entry alert.
C15_HighFrequencyAtFive ==
    (revenge # <<>> /\ Readable(revenge.answer)) =>
        LET n == Cardinality(DOMAIN ClosedSince(revenge.answer, revenge.at, 30 * 60, FALSE))
        IN  /\ n = 5 => revenge.result # <<>>
            /\ n = 4 => (revenge.result = <<>> \/ QuickFired(revenge))

\* C16: a check_revenge_pattern call returns the quick re-entry alert
\* exactly when at least 2 trades closed as losses in the last
\* REVENGE_WINDOW_MINUTES minutes, the latest of those losses closed less
\* than 5 minutes ago and the user holds an open position; the details of
\* the alert are the number of those losses and the whole minutes since the
\* latest.
C16_QuickReentryIff ==
    (revenge # <<>> /\ Readable(revenge.answer)) =>
        LET lost == ClosedSince(revenge.answer, revenge.at,
                                REVENGE_WINDOW_MINUTES * 60, TRUE)
            n == Cardinality(DOMAIN lost)
        IN  /\ QuickFired(revenge) <=>
                   /\ n >= 2
                   /\ revenge.at - Latest(lost) < 300
                   /\ HoldsOpenPosition(revenge.account)
            /\ QuickFired(revenge) =>
                   /\ revenge.result[1].details.recent_losses = n
                   /\ revenge.result[1].details.time_since_last_loss
                          = (revenge.at - Latest(lost)) \div 60

\* C17: a check_revenge_pattern call returns at most one alert; when the
\* trades and positions it read match both patterns it is the quick
\* re-entry alert; and a call that returns an alert has written the
\* cooldown map once, under the key of that alert.
C17_FirstMatchWins ==
    revenge # <<>> =>
        /\ Len(revenge.result) <= 1
        /\ (/\ QuickReentry(revenge.trades, revenge.positions, revenge.at)
            /\ HighFrequency(revenge.trades, revenge.at)) => QuickFired(revenge)
        /\ revenge.result # <<>> =>
               last_alert_times =
                   Put(revenge.before, "revenge:" \o revenge.result[1].symbol, revenge.at)

C17_Witness ==
    /\ revenge # <<>>
    /\ QuickReentry(revenge.trades, revenge.positions, revenge.at)
    /\ HighFrequency(revenge.trades, revenge.at)
    /\ QuickFired(revenge)
    /\ revenge.before # <<>>

\* C18: a check_revenge_pattern call that got fewer than 2 trade records,
\* or whose request for the trades failed, returns None and leaves the
\* cooldown map as it was.
C18_FewTradesNoPattern ==
    (revenge # <<>> /\ (Len(revenge.trades) < 2 \/ ~Readable(revenge.answer))) =>
        /\ revenge.result = <<>>
        /\ last_alert_times = revenge.before

C18_Witness ==
    /\ revenge # <<>>
    /\ Len(revenge.trades) = 1
    /\ ~revenge.trades[1].is_win
    /\ revenge.at - revenge.trades[1].closed_time_dt < 300
    /\ revenge.positions # <<>>
    /\ revenge.before # <<>>

\* C19: a revenge alert created with an empty position (the high-frequency
\* alert) has the symbol SYSTEM.
C19_PositionlessSymbolIsSystem ==
    (revenge # <<>> /\ revenge.result # <<>> /\ ~QuickFired(revenge)) =>
        revenge.result[1].symbol = "SYSTEM"

\* C20: a check_revenge_pattern call whose trades and positions match a
\* pattern returns an alert, whatever the cooldown map holds.
C20_RevengeNeverRateLimited ==
    (/\ revenge # <<>>
     /\ \/ QuickReentry(revenge.trades, revenge.positions, revenge.at)
        \/ HighFrequency(revenge.trades, revenge.at)) =>
        revenge.result # <<>>

C20_Witness ==
    /\ revenge # <<>>
    /\ revenge.result # <<>>
    /\ ("revenge:" \o revenge.result[1].symbol) \in DOMAIN revenge.before
    /\ revenge.at > revenge.before["revenge:" \o revenge.result[1].symbol]
    /\ revenge.at - revenge.before["revenge:" \o revenge.result[1].symbol]
           < ALERT_COOLDOWNS["revenge"]

(***************************************************************************)
(* Properties of the liquidation distance.                                 *)
(***************************************************************************)
\* C21: a position whose liquidation price is 0 never gets a liq_risk alert,
\* whatever MIN_LIQ_DISTANCE_PCT the settings hold, and a position at mark
\* 100 with its liquidation price at 95 has a liquidation distance of 5
\* percent.
C21_ZeroLiquidationPriceNeverLiqRisk ==
    /\ \A pos \in ConfigPositions :
          (pos.mark_price = 100 /\ pos.liquidation_price = 95)
              => pos.liq_distance_pct = 5 * 100
    /\ (position[1] # NoPosition /\ position[1].liquidation_price = 0)
          => \A i \in 1..Len(alerts[1]) : alerts[1][i].rule_type # "liq_risk"

(***************************************************************************)
(* telegram_bot.py and config.py: the discipline score and its tier.       *)
(* _calculate_discipline_score counts, over the last 7 days, the user's    *)
(* alerts (total_alerts), those of them that are acknowledged (ack_alerts) *)
(* and the button clicks with a positive score_impact (positive_actions);  *)
(* the counts are the inputs here.                                         *)
(***************************************************************************)
MaxAlertCount == 40
MaxPositiveCount == 4

Max(a, b) == IF a >= b THEN a ELSE b

Min(a, b) == IF a <= b THEN a ELSE b

CalculateDisciplineScore_unclamped(total_alerts, ack_alerts, positive_actions) ==
    100 - ((total_alerts - ack_alerts) * 5) + (positive_actions * 2)

CalculateDisciplineScore(total_alerts, ack_alerts, positive_actions) ==
    LET violations == total_alerts - ack_alerts
        score == 100 - (violations * 5) + (positive_actions * 2)
    IN  Max(0, Min(100, score))

\* the badges without their emoji
SCORE_TIERS_gap ==
    <<[min_score |-> 90, max_score |-> 100, badge |-> "Diamond", status |-> "Excellent"],
      [min_score |-> 75, max_score |-> 88, badge |-> "Platinum", status |-> "Good"],
      [min_score |-> 60, max_score |-> 74, badge |-> "Silver", status |-> "Careful"],
      [min_score |-> 40, max_score |-> 59, badge |-> "Bronze", status |-> "Warning"],
      [min_score |-> 0, max_score |-> 39, badge |-> "Alert", status |-> "Critical"]>>

SCORE_TIERS ==
    <<[min_score |-> 90, max_score |-> 100, badge |-> "Diamond", status |-> "Excellent"],
      [min_score |-> 75, max_score |-> 89, badge |-> "Platinum", status |-> "Good"],
      [min_score |-> 60, max_score |-> 74, badge |-> "Silver", status |-> "Careful"],
      [min_score |-> 40, max_score |-> 59, badge |-> "Bronze", status |-> "Warning"],
      [min_score |-> 0, max_score |-> 39, badge |-> "Alert", status |-> "Critical"]>>

\* the for loop of get_score_tier from tier i on, then the fallback return
RECURSIVE ScoreTierFrom(_, _)
ScoreTierFrom(score, i) ==
    IF i > Len(SCORE_TIERS) THEN [badge |-> "Alert", status |-> "Critical"]
    ELSE IF SCORE_TIERS[i].min_score <= score /\ score <= SCORE_TIERS[i].max_score
         THEN [badge |-> SCORE_TIERS[i].badge, status |-> SCORE_TIERS[i].status]
         ELSE ScoreTierFrom(score, i + 1)

GetScoreTier(score) == ScoreTierFrom(score, 1)

ScoreInputs ==
    {[fn |-> "score", total_alerts |-> t, ack_alerts |-> a, positive_actions |-> p] :
        t \in 0..MaxAlertCount, a \in 0..MaxAlertCount, p \in 0..MaxPositiveCount}

\* ack_alerts counts a subset of the rows total_alerts counts
CountInputs == {x \in ScoreInputs : x.ack_alerts <= x.total_alerts}

\* score = self._calculate_discipline_score(user.id, db)
CallCalculateDisciplineScore ==
    /\ calc_in # <<>> /\ calc_in.fn = "score"
    /\ calc_out = <<>>
    /\ calc_out' = <<[score |-> CalculateDisciplineScore(calc_in.total_alerts,
                                                        calc_in.ack_alerts,
                                                        calc_in.positive_actions)]>>
    /\ UNCHANGED <<now, engine_vars, user_vars, click_vars, recap_run, settings, engine, monitor_vars,
                   revenge, calc_in, recap_vars>>

\* badge, status = get_score_tier(score)
CallGetScoreTier ==
    /\ calc_in # <<>> /\ calc_in.fn = "score"
    /\ calc_out # <<>> /\ DOMAIN calc_out[1] = {"score"}
    /\ calc_out' = <<calc_out[1] @@ GetScoreTier(calc_out[1].score)>>
    /\ UNCHANGED <<now, engine_vars, user_vars, click_vars, recap_run, settings, engine, monitor_vars,
                   revenge, calc_in, recap_vars>>

(***************************************************************************)
(* rule_engine.py: check_high_risk and check_no_stop_loss with the numbers *)
(* they put into the alert's suggestion.  A call is given the engine's     *)
(* map and a position; it returns the alert, if any, and leaves the map    *)
(* as _create_alert wrote it.  Prices of a suggestion are in               *)
(* ten-thousandths of the quote unit (a price times a percentage in        *)
(* hundredths).                                                            *)
(***************************************************************************)
MaxRiskInput == 1000
NO_SL_TIMEOUT_MINUTES == 3

\* int(((current_risk - target_risk) / current_risk) * 100)
SizeReductionPct(risk_pct) ==
    TruncDiv((risk_pct - MAX_RISK_PCT) * 100, risk_pct)

CheckHighRisk(lat, pos, t) ==
    IF HighRiskCond(pos) /\ ShouldAlert(lat, "high_risk", pos["symbol"], t)
    THEN [alert |-> <<CreateAlertDict("high_risk", pos, t)
                        @@ [reduce_by |-> SizeReductionPct(Get(pos, "risk_pct", 0))]>>,
          last_alert_times |->
              UpdateLastAlertTime(lat, "high_risk", Get(pos, "symbol", ""), t)]
    ELSE [alert |-> <<>>, last_alert_times |-> lat]

SuggestedStop_below(pos) ==
    Get(pos, "entry_price", 0) * (100 * 100 - Get(pos, "risk_pct", 2 * 100))

\* sl_price of check_no_stop_loss
SuggestedStop(pos) ==
    LET risk_pct == Get(pos, "risk_pct", 2 * 100)
        entry_price == Get(pos, "entry_price", 0)
        side == Get(pos, "side", "Long")
    IN  IF side = "Long"
        THEN entry_price * (100 * 100 - risk_pct)
        ELSE entry_price * (100 * 100 + risk_pct)

CheckNoStopLoss(lat, pos, t) ==
    IF NoStopLossCond(pos) /\ ShouldAlert(lat, "no_sl", pos["symbol"], t)
    THEN [alert |-> <<CreateAlertDict("no_sl", pos, t)
                        @@ [sl_price |-> SuggestedStop(pos),
                            sl_risk_pct |-> Get(pos, "risk_pct", 2 * 100)]>>,
          last_alert_times |->
              UpdateLastAlertTime(lat, "no_sl", Get(pos, "symbol", ""), t)]
    ELSE [alert |-> <<>>, last_alert_times |-> lat]

\* an enriched BTCUSDT position with the given side, entry price, risk and
\* stop order
PositionWith(amt, entry_price, risk_pct, has_sl) ==
    [Enriched(Raw("BTCUSDT", amt, "100", "0"), ParseFloat(Balance),
              IF has_sl THEN Symbols ELSE {})
        EXCEPT !.entry_price = entry_price, !.risk_pct = risk_pct]

\* the engine's map: new, or with an alert of the rule at time 0
MapsFor(rule_type) == {<<>>, UpdateLastAlertTime(<<>>, rule_type, "BTCUSDT", 0)}

HighRiskInputs ==
    {[fn |-> "high_risk", position |-> PositionWith("1", 100, r, TRUE),
      last_alert_times |-> lat] :
        r \in 0..MaxRiskInput, lat \in MapsFor("high_risk")}

\* open_for: the seconds since the position was opened on the exchange
NoStopLossInputs ==
    {[fn |-> "no_sl", position |-> PositionWith(x[1], x[2], x[3], x[4]),
      open_for |-> x[5], last_alert_times |-> lat] :
        x \in {"1", "-1"} \X {100, 250} \X {0, 200, 250, 1000} \X BOOLEAN
               \X {0, 179, 180, 181, 600},
        lat \in MapsFor("no_sl")}

CallCheckHighRisk ==
    /\ calc_in # <<>> /\ calc_in.fn = "high_risk"
    /\ calc_out = <<>>
    /\ calc_out' = <<CheckHighRisk(calc_in.last_alert_times, calc_in.position, now)>>
    /\ UNCHANGED <<now, engine_vars, user_vars, click_vars, recap_run, settings, engine, monitor_vars,
                   revenge, calc_in, recap_vars>>

CallCheckNoStopLoss ==
    /\ calc_in # <<>> /\ calc_in.fn = "no_sl"
    /\ calc_out = <<>>
    /\ calc_out' = <<CheckNoStopLoss(calc_in.last_alert_times, calc_in.position, now)>>
    /\ UNCHANGED <<now, engine_vars, user_vars, click_vars, recap_run, settings, engine, monitor_vars,
                   revenge, calc_in, recap_vars>>

(***************************************************************************)
(* SpecCalc: one of the functions above is called on one input.            *)
(***************************************************************************)
InitCalcInput ==
    /\ InitEngine
    /\ InitUser
    /\ InitMonitor
    /\ InitRecap
    /\ InitClick
    /\ settings = DefaultSettings
    /\ engine = "ready"
    /\ revenge = <<>>
    /\ calc_in \in CountInputs \cup HighRiskInputs \cup NoStopLossInputs
    /\ calc_out = <<>>

NextCalc ==
    \/ CallCalculateDisciplineScore
    \/ CallGetScoreTier
    \/ CallCheckHighRisk
    \/ CallCheckNoStopLoss

SpecCalc == InitCalcInput /\ [][NextCalc]_vars

(***************************************************************************)
(* Properties of the discipline score.                                     *)
(***************************************************************************)
Scored == calc_in # <<>> /\ calc_in.fn = "score" /\ calc_out # <<>>

Tiered == Scored /\ "badge" \in DOMAIN calc_out[1]

\* C22: for counts with ack_alerts <= total_alerts the score is
\* 100 - 5 * (total - ack) + 2 * positive, brought into 0..100; it is 100 for
\* (10, 10, 0), 50 for (10, 0, 0) and 0 for (40, 0, 0).
C22_ScoreIsClampedFormula ==
    Scored =>
        LET raw == 100 - 5 * (calc_in.total_alerts - calc_in.ack_alerts)
                       + 2 * calc_in.positive_actions
            score == calc_out[1].score
        IN  /\ score = (IF raw < 0 THEN 0 ELSE IF raw > 100 THEN 100 ELSE raw)
            /\ score \in 0..100
            /\ (calc_in.total_alerts = 10 /\ calc_in.ack_alerts = 10
                    /\ calc_in.positive_actions = 0) => score = 100
            /\ (calc_in.total_alerts = 10 /\ calc_in.ack_alerts = 0
                    /\ calc_in.positive_actions = 0) => score = 50
            /\ (calc_in.total_alerts = 40 /\ calc_in.ack_alerts = 0
                    /\ calc_in.positive_actions = 0) => score = 0

\* the score of (40, 0, 0) has been computed and is the lower limit
C22_Witness ==
    /\ Scored
    /\ calc_in.total_alerts = 40 /\ calc_in.ack_alerts = 0
    /\ calc_in.positive_actions = 0
    /\ calc_out[1].score = 0

TiersOf(score) ==
    {i \in 1..Len(SCORE_TIERS) :
        SCORE_TIERS[i].min_score <= score /\ score <= SCORE_TIERS[i].max_score}

\* C23: every score lies in exactly one range of SCORE_TIERS and
\* get_score_tier returns the badge and the status of that range; 90..100 is
\* the top tier and 0..39 the lowest.
C23_TiersPartitionScores ==
    Tiered =>
        LET score == calc_out[1].score
        IN  /\ Cardinality(TiersOf(score)) = 1
            /\ \A i \in TiersOf(score) :
                  /\ calc_out[1].badge = SCORE_TIERS[i].badge
                  /\ calc_out[1].status = SCORE_TIERS[i].status
            /\ (score >= 90) <=> (calc_out[1].badge = "Diamond")
            /\ (score <= 39) <=> (calc_out[1].badge = "Alert")

\* a score of 89, the upper end of a middle range, has been given its tier
C23_Witness ==
    /\ Tiered
    /\ calc_out[1].score = 89
    /\ calc_out[1].badge = "Platinum"

(***************************************************************************)
(* Properties of check_high_risk and check_no_stop_loss.                   *)
(***************************************************************************)
Returned(fn) == calc_in # <<>> /\ calc_in.fn = fn /\ calc_out # <<>>

Alerted(fn) == Returned(fn) /\ calc_out[1].alert # <<>>

\* C24: check_high_risk returns an alert only for a risk_pct strictly above
\* MAX_RISK_PCT; the alert's severity is warning and the reduction it
\* suggests is (risk_pct - MAX_RISK_PCT) / risk_pct * 100 cut to a whole
\* number, which lies in 0..99.
C24_HighRiskStrictAndReduction ==
    Alerted("high_risk") =>
        LET risk_pct == calc_in.position.risk_pct
            alert == calc_out[1].alert[1]
        IN  /\ risk_pct > MAX_RISK_PCT
            /\ alert.rule_type = "high_risk"
            /\ alert.severity = "warning"
            /\ alert.reduce_by \in 0..99
            /\ alert.reduce_by * risk_pct <= (risk_pct - MAX_RISK_PCT) * 100
            /\ (alert.reduce_by + 1) * risk_pct > (risk_pct - MAX_RISK_PCT) * 100

\* a risk of 3 percent got an alert suggesting a reduction by 33 percent
C24_Witness ==
    /\ Alerted("high_risk")
    /\ calc_in.position.risk_pct = 3 * 100
    /\ calc_out[1].alert[1].reduce_by = 33

\* C25: the stop price a no_sl alert suggests is entry_price * (1 -
\* risk_pct / 100) for a Long and entry_price * (1 + risk_pct / 100) for a
\* Short, so never above the entry of a Long nor below the entry of a
\* Short; for entry 100 and risk 2 percent it is 98 and 102.
C25_SuggestedStopOnProtectiveSide ==
    Alerted("no_sl") =>
        LET pos == calc_in.position
            sl_price == calc_out[1].alert[1].sl_price
        IN  /\ pos.side = "Long" =>
                  /\ sl_price = pos.entry_price * 100 * 100 - pos.entry_price * pos.risk_pct
                  /\ sl_price <= pos.entry_price * 100 * 100
                  /\ (pos.entry_price = 100 /\ pos.risk_pct = 2 * 100)
                        => sl_price = 98 * 100 * 100
            /\ pos.side = "Short" =>
                  /\ sl_price = pos.entry_price * 100 * 100 + pos.entry_price * pos.risk_pct
                  /\ sl_price >= pos.entry_price * 100 * 100
                  /\ (pos.entry_price = 100 /\ pos.risk_pct = 2 * 100)
                        => sl_price = 102 * 100 * 100

\* a Short entered at 100 with a risk of 2 percent got 102 as its stop
C25_Witness ==
    /\ Alerted("no_sl")
    /\ calc_in.position.side = "Short"
    /\ calc_in.position.entry_price = 100
    /\ calc_in.position.risk_pct = 2 * 100
    /\ calc_out[1].alert[1].sl_price = 102 * 100 * 100

\* C26: check_no_stop_loss returns an alert only for a position that has no
\* stop loss and has been open for longer than NO_SL_TIMEOUT_MINUTES.
C26_NoStopLossOnlyAfterTimeout ==
    Alerted("no_sl") =>
        /\ ~calc_in.position.has_stop_loss
        /\ calc_in.open_for > NO_SL_TIMEOUT_MINUTES * 60

(***************************************************************************)
(* Properties of the cooldown map over a sequence of evaluations.          *)
(***************************************************************************)
\* C27: no step removes a key from the cooldown map or moves the time
\* stored under a key backwards.
C27_CooldownEntriesOnlyGrow ==
    [][/\ DOMAIN last_alert_times \subseteq DOMAIN last_alert_times'
       /\ \A k \in DOMAIN last_alert_times :
             last_alert_times'[k] >= last_alert_times[k]]_vars

\* an entry has been overwritten with a later time while another key stayed
C27_Witness ==
    /\ Cardinality(DOMAIN last_alert_times) >= 2
    /\ \E c \in Callers : \E i \in 1..Len(evals[c]) :
          /\ evals[c][i].had
          /\ Key(evals[c][i].rule, evals[c][i].symbol) \in DOMAIN last_alert_times
          /\ last_alert_times[Key(evals[c][i].rule, evals[c][i].symbol)]
                > evals[c][i].stored

\* none of the three conditions holds for the position
Quiet(pos) ==
    /\ pos # NoPosition
    /\ pos.risk_pct <= MAX_RISK_PCT
    /\ pos.liq_distance_pct >= MIN_LIQ_DISTANCE_PCT
    /\ pos.has_stop_loss

\* C28: a call of check_all_rules on a position for which none of the three
\* conditions holds raises nothing, hands back no alert and leaves the
\* cooldown map as it was.
C28_QuietPositionNoAlert ==
    /\ [](\A c \in Callers :
            Quiet(position[c]) =>
                /\ pc[c] # "raised"
                /\ Held(c) = <<>>
                /\ updates[c] = <<>>)
    /\ [][\A c \in Callers :
              (Quiet(position[c]) /\ pc[c] \notin {"idle", "done"})
                  => last_alert_times' = last_alert_times]_vars

\* such a call has returned on an engine whose map holds entries
C28_Witness ==
    \E c \in Callers :
        /\ pc[c] = "done"
        /\ Quiet(position[c])
        /\ Len(evals[c]) = 3
        /\ alerts[c] = <<>>
        /\ last_alert_times # <<>>

(***************************************************************************)
(* scheduler.py: JarvisScheduler and its daily_recap_loop.  The clock is   *)
(* in seconds since a midnight UTC.  One step of the loop is one pass      *)
(* through the body of `while self.running`: read the clock, send or not,  *)
(* sleep.  asyncio.sleep(d) gives control back after at least d seconds,   *)
(* and the statements around it take time as well: WakeDelays is what a    *)
(* pass may take beyond its sleep.  send_daily_recaps catches every        *)
(* exception itself, so the loop's except branch is not entered.           *)
(***************************************************************************)
\* five minutes past 20:00:00
MaxRecapTime == 72300

RECAP_HOUR == 20
RECAP_CHECK_SECONDS == 60
RECAP_PAUSE_SECONDS == 120

Hour(t) == (t % 86400) \div 3600

Minute(t) == (t % 3600) \div 60

\* the process starts in the two minutes before 20:00:00
StartTimes == (RECAP_HOUR * 3600 - 120) .. (RECAP_HOUR * 3600 - 1)

WakeDelays == {0, 1}

\* how long send_daily_recaps takes: its queries, its sends and the half
\* second it sleeps after each
SendDurations == {0, 2}

\* scheduler.start(): running = True and the loop's task is created
SchedulerStart ==
    /\ spc = "idle"
    /\ spc' = "loop"
    /\ UNCHANGED <<now, engine_vars, user_vars, click_vars, recap_run, settings, engine, monitor_vars,
                   revenge, calc_vars, recaps>>

\* scheduler.stop(): running = False, the while loop ends at its next test
SchedulerStop ==
    /\ spc = "loop"
    /\ spc' = "stopped"
    /\ UNCHANGED <<now, engine_vars, user_vars, click_vars, recap_run, settings, engine, monitor_vars,
                   revenge, calc_vars, recaps>>

RecapDue(t) == Hour(t) = RECAP_HOUR /\ Minute(t) = 0

\* the rows of the users table with is_active, in the order of their ids
RECURSIVE ActiveUsers(_)
ActiveUsers(ids) ==
    IF ids = {} THEN <<>>
    ELSE LET u == CHOOSE x \in ids : \A y \in ids : x <= y
         IN <<u>> \o ActiveUsers(ids \ {u})

RECURSIVE SendDailyRecaps_aborts(_, _)
SendDailyRecaps_aborts(users, fails) ==
    IF users = <<>> THEN <<>>
    ELSE IF Head(users) \in fails
         THEN <<[user |-> Head(users), sent |-> FALSE]>>
         ELSE <<[user |-> Head(users), sent |-> TRUE]>>
                  \o SendDailyRecaps_aborts(Tail(users), fails)

\* send_daily_recaps: the loop over the active users.  fails are the users
\* for whom the send raises; the exception is caught inside the loop body,
\* at the latest by the except of line 81, and the loop goes on to the next
\* user.
RECURSIVE SendDailyRecaps(_, _)
SendDailyRecaps(users, fails) ==
    IF users = <<>> THEN <<>>
    ELSE <<[user |-> Head(users), sent |-> Head(users) \notin fails]>>
             \o SendDailyRecaps(Tail(users), fails)

RecapSend_short_pause(took, late, fails) ==
    /\ spc = "loop"
    /\ RecapDue(now)
    /\ recaps' = recaps \cup {now}
    /\ recap_run' = SendDailyRecaps(ActiveUsers(active), fails)
    /\ now + took + 10 + late <= MaxRecapTime
    /\ now' = now + took + 10 + late
    /\ UNCHANGED <<engine_vars, user_vars, click_vars, settings, engine, monitor_vars,
                   revenge, calc_vars, spc>>

\* the pass at 20:00: send_daily_recaps, then asyncio.sleep(120)
RecapSend(took, late, fails) ==
    /\ spc = "loop"
    /\ RecapDue(now)
    /\ recaps' = recaps \cup {now}
    /\ recap_run' = SendDailyRecaps(ActiveUsers(active), fails)
    /\ now + took + RECAP_PAUSE_SECONDS + late <= MaxRecapTime
    /\ now' = now + took + RECAP_PAUSE_SECONDS + late
    /\ UNCHANGED <<engine_vars, user_vars, click_vars, settings, engine, monitor_vars,
                   revenge, calc_vars, spc>>

\* any other pass: asyncio.sleep(60)
RecapWait(late) ==
    /\ spc = "loop"
    /\ ~RecapDue(now)
    /\ now + RECAP_CHECK_SECONDS + late <= MaxRecapTime
    /\ now' = now + RECAP_CHECK_SECONDS + late
    /\ UNCHANGED <<engine_vars, user_vars, click_vars, recap_run, settings, engine, monitor_vars,
                   revenge, calc_vars, spc, recaps>>

DailyRecapLoop ==
    \/ \E took \in SendDurations, late \in WakeDelays, fails \in SUBSET active :
           RecapSend(took, late, fails)
    \/ \E late \in WakeDelays : RecapWait(late)

InitScheduler ==
    /\ now \in StartTimes
    /\ last_alert_times = <<>>
    /\ pc = [c \in Callers |-> "idle"]
    /\ ri = [c \in Callers |-> 0]
    /\ position = [c \in Callers |-> NoPosition]
    /\ pending = [c \in Callers |-> <<>>]
    /\ alerts = [c \in Callers |-> <<>>]
    /\ evals = [c \in Callers |-> <<>>]
    /\ updates = [c \in Callers |-> <<>>]
    /\ fired = {}
    /\ InitUser
    /\ mpc = "sleep"
    /\ active \in SUBSET Users
    /\ due = {}
    /\ checked = {}
    /\ InitCalc
    /\ InitRecap
    /\ InitClick
    /\ settings = DefaultSettings
    /\ engine = "ready"
    /\ revenge = <<>>

NextRecap == SchedulerStart \/ DailyRecapLoop \/ SchedulerStop

SpecRecap == InitScheduler /\ [][NextRecap]_vars

(***************************************************************************)
(* Properties of the daily recap.                                          *)
(***************************************************************************)
\* the times of the 20:00 minute of the day of t
RecapMinute(t) ==
    {u \in 0..MaxRecapTime : u \div 86400 = t \div 86400 /\ RecapDue(u)}

\* C29: while the scheduler is running, the loop does not get past a 20:00
\* UTC minute without having called send_daily_recaps in it.
C29_RecapMinuteNeverMissed ==
    (spc = "loop" /\ now >= RECAP_HOUR * 3600 + 60)
        => recaps \cap RecapMinute(RECAP_HOUR * 3600) # {}

\* C30: send_daily_recaps is not called twice on one day: after a call the
\* loop does not call it again in the same 20:00 minute.
C30_RecapAtMostOncePerDay ==
    \A t1 \in recaps : \A t2 \in recaps :
        (t1 \div 86400 = t2 \div 86400) => t1 = t2

\* the recap was sent and the loop has gone on beyond the minute
C30_Witness ==
    /\ spc = "loop"
    /\ recaps # {}
    /\ now >= RECAP_HOUR * 3600 + 60

(***************************************************************************)
(* Properties of one check_all_rules call and of repeated calls.           *)
(***************************************************************************)
RuleTypes(as) == [j \in 1..Len(as) |-> as[j].rule_type]

\* C31: a call of check_all_rules that has returned has evaluated the three
\* rules, each whatever the others did, and its list holds, in the order
\* high_risk, liq_risk, no_sl, one alert for each rule whose condition held
\* outside the window of its own cooldown entry, and nothing else.
C31_RulesIndependentAndOrdered ==
    \A c \in Callers :
        pc[c] = "done" =>
            /\ Len(evals[c]) = Len(RuleOrder)
            /\ \A i \in 1..Len(evals[c]) : evals[c][i].rule = RuleOrder[i]
            /\ Len(alerts[c]) \in 0..3
            /\ RuleTypes(alerts[c]) =
                   SelectSeq(RuleOrder,
                             LAMBDA r : \E i \in 1..Len(evals[c]) :
                                 /\ evals[c][i].rule = r
                                 /\ evals[c][i].cond
                                 /\ ~InWindow(evals[c][i]))

\* a call returned the first and the third alert without the second
C31_Witness ==
    \E c \in Callers :
        /\ pc[c] = "done"
        /\ RuleTypes(alerts[c]) = <<"high_risk", "no_sl">>

\* C33: a call of check_all_rules that has ended, by its return or by an
\* exception, has written a cooldown entry only for the alerts in its
\* list: the keys it wrote are those of its alerts, one for one.
C33_CooldownOnlyForReturnedAlerts ==
    \A c \in Callers :
        pc[c] \in {"done", "raised"} =>
            /\ Len(updates[c]) = Len(alerts[c])
            /\ \A j \in 1..Len(updates[c]) :
                  /\ updates[c][j] = Key(alerts[c][j].rule_type, alerts[c][j].symbol)
                  /\ updates[c][j] \in DOMAIN last_alert_times

\* a call returned three alerts and had written three entries
C33_Witness ==
    \E c \in Callers :
        /\ pc[c] = "done"
        /\ Len(alerts[c]) = 3
        /\ Len(updates[c]) = 3

\* C34: an evaluation whose condition holds and which comes at least one
\* cooldown after the last alert of its rule and symbol gives an alert
\* again, and the cooldown then runs from that evaluation.
C34_SuppressionNotPermanent ==
    \A c \in Callers : \A i \in 1..Len(evals[c]) :
        LET e == evals[c][i]
        IN  (e.cond /\ e.had /\ e.elapsed >= ALERT_COOLDOWNS[e.rule] /\ Over(c, i)) =>
                /\ Len(HeldOf(c, e.rule)) = 1
                /\ HeldOf(c, e.rule)[1].triggered_at >= e.at
                /\ last_alert_times[Key(e.rule, e.symbol)] >= e.at

\* an alert was given again more than one cooldown after the last
C34_Witness ==
    \E c \in Callers : \E i \in 1..Len(evals[c]) :
        /\ evals[c][i].cond /\ evals[c][i].had /\ Over(c, i)
        /\ evals[c][i].elapsed > ALERT_COOLDOWNS[evals[c][i].rule]
        /\ HeldOf(c, evals[c][i].rule) # <<>>

(***************************************************************************)
(* Properties of check_user_positions over users and cycles.               *)
(***************************************************************************)
\* C32: a call of check_user_positions for a user with no open position
\* still goes through check_revenge_pattern and on to its last statement.
C32_RevengeCheckedWithoutPositions ==
    (upc = "ended" /\ user # 0 /\ positions = <<>>) => outcome = "ok"

\* a stored alert of another user for the rule and symbol of evaluation e,
\* less than the rule's cooldown old
OthersRecent(e) ==
    {r \in db_alerts :
        /\ r.user_id # user
        /\ r.rule_type = e.rule
        /\ r.symbol = e.symbol
        /\ now - r.triggered_at < ALERT_COOLDOWNS[e.rule]}

\* C35: a rule check for one user whose condition holds gives its alert
\* also when an alert of the same rule and symbol was given to another user
\* less than one cooldown ago.
C35_NoSuppressionAcrossUsers ==
    \A i \in 1..Len(evals[1]) :
        LET e == evals[1][i]
        IN  (upc = "engine" /\ e.cond /\ Decided(1, i) /\ OthersRecent(e) # {})
                => (~e.had /\ Fired(1, i))

\* user 2 was given the alert that user 1 got one polling interval earlier
C35_Witness ==
    \E i \in 1..Len(evals[1]) :
        /\ upc = "engine" /\ pc[1] = "done"
        /\ evals[1][i].cond
        /\ OthersRecent(evals[1][i]) # {}
        /\ \E r \in OthersRecent(evals[1][i]) : r.triggered_at < now
        /\ HeldOf(1, evals[1][i].rule) # <<>>

(***************************************************************************)
(* Properties of the symbol of an alert.                                   *)
(***************************************************************************)
\* C36: the alert that a check_revenge_pattern call built carries in its
\* alert_id the symbol of its symbol field, and the cooldown entry written
\* with it has that symbol in its key.
C36_OneSymbolPerAlert ==
    (revenge # <<>> /\ revenge.result # <<>>) =>
        LET a == revenge.result[1]
        IN  /\ a.alert_id = GenerateAlertId(a.rule_type, a.symbol, a.triggered_at)
            /\ Key(a.rule_type, a.symbol) \in DOMAIN last_alert_times
            /\ last_alert_times[Key(a.rule_type, a.symbol)] >= a.triggered_at

(***************************************************************************)
(* Properties of storing and sending.                                      *)
(***************************************************************************)
\* C37: when send_alert is called for an alert, its row is committed; a
\* send that fails leaves the row in the table without a message id and the
\* call goes on with the alerts that remain.
C37_CommittedBeforeSend ==
    /\ [](upc \in {"send", "revenge_send"} =>
            \E r \in db_alerts :
                /\ r.alert_id = Head(todo).alert_id
                /\ r.user_id = user
                /\ r.telegram_message_id = 0)
    /\ [][(upc = "send" /\ upc' # "send") =>
              /\ upc' = "alerts"
              /\ outcome' = outcome
              /\ todo' = Tail(todo)
              /\ \E r \in db_alerts' : r.alert_id = Head(todo).alert_id
              /\ Cardinality(db_alerts') = Cardinality(db_alerts)]_vars
    /\ [][(upc = "revenge_send" /\ upc' # "revenge_send") =>
              /\ upc' = "last_seen"
              /\ outcome' = outcome
              /\ \E r \in db_alerts' : r.alert_id = Head(todo).alert_id
              /\ Cardinality(db_alerts') = Cardinality(db_alerts)]_vars

\* the send of the call's first alert failed, its row is kept without a
\* message id, and the second alert is about to be sent
C37_Witness ==
    /\ upc = "send"
    /\ \E r \in db_alerts :
          /\ r.user_id = user
          /\ r.triggered_at = now
          /\ r.alert_id # Head(todo).alert_id
          /\ r.telegram_message_id = 0


\* C40: in a run of send_daily_recaps a send that fails for one user does not
\* keep the active users after that one from their send: the run reaches
\* every active user, and every one of them whose own send works is sent to.
C40_RecapFailureSkipsOnlyThatUser ==
    recaps # {} =>
        /\ {recap_run[i].user : i \in DOMAIN recap_run} = active
        /\ Len(recap_run) = Cardinality(active)
        /\ \E fails \in SUBSET active :
               \A i \in DOMAIN recap_run :
                   recap_run[i].sent <=> recap_run[i].user \notin fails

\* a run in which the send to one user failed and a later user was sent to
C40_Witness ==
    /\ recaps # {}
    /\ \E i \in DOMAIN recap_run : \E j \in DOMAIN recap_run :
           i < j /\ ~recap_run[i].sent /\ recap_run[j].sent

(***************************************************************************)
(* telegram_bot.py: handle_button_click.  The handler is one step: between *)
(* its two queries and its commit it awaits nothing.  A callback carries   *)
(* the telegram id of the user who pressed the button and the button's     *)
(* callback data: <<>> when json.loads or the two key lookups raise,       *)
(* <<[action, alert_id]>> otherwise.  The users table holds one row per    *)
(* member of Users, with telegram_id equal to id.  A ButtonClick refers to *)
(* its alert by the row's primary key; the model names the row by its      *)
(* alert_id, which is unique as well.                                      *)
(***************************************************************************)
MaxClicks == 2       \* rows of the button_clicks table
MaxClickTime == 3    \* the clock of the button runs stops advancing here

TelegramIds == {1, 3}

ClickActions == {"ack", "set_sl"}

BUTTON_CONFIGS ==
    [ack |-> [score |-> 0],
     cooldown |-> [score |-> 5],
     reduce |-> [score |-> 3],
     set_sl |-> [score |-> 5],
     add_margin |-> [score |-> 3],
     view_stats |-> [score |-> 0]]

\* the alerts table when the buttons are pressed: one alert of each user
StoredAlerts ==
    {AlertRow(u, [alert_id |-> "alert_0_no_sl_" \o sym,
                  rule_type |-> "no_sl",
                  symbol |-> sym,
                  triggered_at |-> 0]) :
         <<u, sym>> \in {<<1, "BTCUSDT">>, <<2, "ETHUSDT">>}}

CallbackData ==
    {<<>>} \cup
    {<<[action |-> a, alert_id |-> id]>> :
         a \in ClickActions,
         id \in {r.alert_id : r \in StoredAlerts} \cup {"alert_0_no_sl_XRPUSDT"}}

FindUser_any(telegram_id) == <<telegram_id>>

\* db.query(User).filter(User.telegram_id == telegram_id).first()
FindUser(telegram_id) ==
    IF telegram_id \in Users THEN <<telegram_id>> ELSE <<>>

\* db.query(Alert).filter(Alert.alert_id == alert_id).first()
FindAlert(rows, alert_id) ==
    IF \E r \in rows : r.alert_id = alert_id
    THEN <<CHOOSE r \in rows : r.alert_id = alert_id>>
    ELSE <<>>

Acknowledge_overwrites(rows, alert_id, t) ==
    {IF r.alert_id = alert_id
     THEN [r EXCEPT !.is_acknowledged = TRUE, !.acknowledged_at = <<t>>]
     ELSE r : r \in rows}

\* if not alert.is_acknowledged: the two assignments
Acknowledge(rows, alert_id, t) ==
    {IF r.alert_id = alert_id /\ ~r.is_acknowledged
     THEN [r EXCEPT !.is_acknowledged = TRUE, !.acknowledged_at = <<t>>]
     ELSE r : r \in rows}

\* ButtonClick(...) of line 294
ButtonClick(u, alert, action, t) ==
    [user_id |-> u,
     alert_id |-> alert.alert_id,
     button_type |-> action,
     score_impact |-> Get(Get(BUTTON_CONFIGS, action, <<>>), "score", 0),
     clicked_at |-> t]

HandleButtonClick(telegram_id, data) ==
    /\ IF data = <<>>
       THEN /\ click' = <<[telegram_id |-> telegram_id, data |-> data,
                           result |-> "error"]>>
            /\ UNCHANGED <<clicks, db_alerts>>
       ELSE LET found == FindUser(telegram_id)
                alert == FindAlert(db_alerts, data[1].alert_id)
            IN IF found = <<>>
               THEN /\ click' = <<[telegram_id |-> telegram_id, data |-> data,
                                   result |-> "user_not_found"]>>
                    /\ UNCHANGED <<clicks, db_alerts>>
               ELSE IF alert = <<>>
               THEN /\ click' = <<[telegram_id |-> telegram_id, data |-> data,
                                   result |-> "alert_not_found"]>>
                    /\ UNCHANGED <<clicks, db_alerts>>
               ELSE /\ Len(clicks) < MaxClicks
                    /\ clicks' = Append(clicks,
                                        ButtonClick(found[1], alert[1],
                                                    data[1].action, now))
                    /\ db_alerts' = Acknowledge(db_alerts, alert[1].alert_id, now)
                    /\ click' = <<[telegram_id |-> telegram_id, data |-> data,
                                   result |-> "recorded"]>>
    /\ UNCHANGED <<now, engine_vars, upc, user, batch, positions, pidx, todo,
                   evaluated, outcome, settings, engine, monitor_vars, revenge,
                   calc_vars, recap_vars, recap_run>>

\* time passes between two callbacks
ClickTime ==
    /\ now < MaxClickTime
    /\ now' = now + 1
    /\ UNCHANGED <<engine_vars, user_vars, aux_vars>>

InitClickStore ==
    /\ InitEngine
    /\ upc = "idle"
    /\ user = 0
    /\ batch = NoAnswer
    /\ positions = <<>>
    /\ pidx = 0
    /\ todo = <<>>
    /\ db_alerts = StoredAlerts
    /\ evaluated = <<>>
    /\ outcome = "none"
    /\ InitAux

NextClick ==
    \/ \E telegram_id \in TelegramIds, data \in CallbackData :
           HandleButtonClick(telegram_id, data)
    \/ ClickTime

SpecClick == InitClickStore /\ [][NextClick]_vars

(***************************************************************************)
(* Properties of the button handler.                                       *)
(***************************************************************************)
\* the callback handled last came from a telegram id with no users row, or
\* named an alert_id with no alerts row
Refused(c, rows) ==
    /\ c # <<>>
    /\ \/ c[1].telegram_id \notin Users
       \/ /\ c[1].data # <<>>
          /\ ~\E r \in rows : r.alert_id = c[1].data[1].alert_id

\* the acknowledgement of the row of alert_id in rows
AckOf(rows, alert_id) ==
    {<<r.is_acknowledged, r.acknowledged_at>> : r \in {x \in rows : x.alert_id = alert_id}}

\* C38: handling a callback of a user who is not registered, or one that
\* names an alert_id no stored alert has, adds no ButtonClick and leaves every
\* alert's acknowledgement as it was.
C38_RefusedClickChangesNothing ==
    [][Refused(click', db_alerts)
           => /\ clicks' = clicks
              /\ \A r \in db_alerts :
                     AckOf(db_alerts', r.alert_id) = AckOf(db_alerts, r.alert_id)]_vars

\* a click was recorded, and then an unregistered user pressed the button of
\* a stored alert nobody has acknowledged
C38_Witness ==
    /\ clicks # <<>>
    /\ click # <<>>
    /\ click[1].telegram_id \notin Users
    /\ click[1].data # <<>>
    /\ \E r \in db_alerts :
           r.alert_id = click[1].data[1].alert_id /\ ~r.is_acknowledged

\* C39: the first click on an alert sets is_acknowledged and acknowledged_at
\* to the time of that click; every later click on the alert leaves both as
\* they are.
C39_AcknowledgementIdempotent ==
    /\ [][\A r \in db_alerts :
              r.is_acknowledged
                  => AckOf(db_alerts', r.alert_id) = {<<TRUE, r.acknowledged_at>>}]_vars
    /\ [][clicks' # clicks
              => \A r \in db_alerts :
                     (r.alert_id = clicks'[Len(clicks')].alert_id /\ ~r.is_acknowledged)
                         => AckOf(db_alerts', r.alert_id)
                                = {<<TRUE, <<clicks'[Len(clicks')].clicked_at>> >>}]_vars

\* an acknowledged alert has a recorded click later than its acknowledgement
C39_Witness ==
    \E r \in db_alerts :
        /\ r.is_acknowledged
        /\ \E i \in DOMAIN clicks :
               /\ clicks[i].alert_id = r.alert_id
               /\ clicks[i].clicked_at > r.acknowledged_at[1]
====
